---- MODULE Spec2Model ----
(***************************************************************************)
(* The ClassAd expression language of MaineKuehn/classad: the value        *)
(* lattice of classad/_primitives.py, the operators of                     *)
(* classad/_operator.py and the evaluator of classad/_expression.py.       *)
(*                                                                         *)
(* Python objects are records tagged by their class in the field t.  A     *)
(* Python str is a sequence of one-character strings, so that slicing,     *)
(* indexing and case folding are computed and not assumed.  An exception   *)
(* leaving a call is the outcome Raise(exc).                               *)
(***************************************************************************)
EXTENDS Integers, Sequences, FiniteSets, TLC

VARIABLES ad, call, result

vars == <<ad, call, result>>

(***************************************************************************)
(* Bounds of the model.                                                    *)
(***************************************************************************)
\* depth of nested _evaluate calls after which Python raises RecursionError
RecursionLimit == 12
\* number of attributes a record built by the model holds, nested ones included
MaxAttrs == 3

(***************************************************************************)
(* Python objects.                                                         *)
(***************************************************************************)
None == [t |-> "None"]
NotImplemented == [t |-> "NotImplemented"]
Raise(exc) == [t |-> "Raise", exc |-> exc]
PyBool(b) == [t |-> "pybool", b |-> b]
PyInt(i) == [t |-> "pyint", i |-> i]
PyFloat(n, d) == [t |-> "pyfloat", n |-> n, d |-> d]
PyStr(s) == [t |-> "str", s |-> s]
PyTuple(l) == [t |-> "tuple", l |-> l]
PyDict(d) == [t |-> "dict", data |-> d]

Undefined == [t |-> "Undefined"]
Error == [t |-> "Error"]
HTCBool(b) == [t |-> "Bool", b |-> b]
HTCInt(i) == [t |-> "Int", i |-> i]
HTCFloat(n, d) == [t |-> "Real", n |-> n, d |-> d]
HTCStr(s) == [t |-> "Str", s |-> s]
HTCList(l) == [t |-> "List", l |-> l]
ClassAd(d) == [t |-> "Record", data |-> d]

\* what a lookup of a method the class does not define yields
Missing == [t |-> "Missing"]

IsRaise(x) == x.t = "Raise"

\* the classes deriving from PrimitiveExpression
PrimitiveTags == {"Undefined", "Error", "Int", "Real", "Str", "List", "Bool"}

(***************************************************************************)
(* str methods.                                                            *)
(***************************************************************************)
lowerChar(c) ==
  CASE c = "A" -> "a"
    [] c = "B" -> "b"
    [] c = "C" -> "c"
    [] c = "D" -> "d"
    [] c = "E" -> "e"
    [] c = "F" -> "f"
    [] c = "G" -> "g"
    [] c = "H" -> "h"
    [] c = "I" -> "i"
    [] c = "J" -> "j"
    [] c = "K" -> "k"
    [] c = "L" -> "l"
    [] c = "M" -> "m"
    [] c = "N" -> "n"
    [] c = "O" -> "o"
    [] c = "P" -> "p"
    [] c = "Q" -> "q"
    [] c = "R" -> "r"
    [] c = "S" -> "s"
    [] c = "T" -> "t"
    [] c = "U" -> "u"
    [] c = "V" -> "v"
    [] c = "W" -> "w"
    [] c = "X" -> "x"
    [] c = "Y" -> "y"
    [] c = "Z" -> "z"
    [] OTHER -> c

lower(s) == [i \in DOMAIN s |-> lowerChar(s[i])]

casefold(s) == [i \in DOMAIN s |-> lowerChar(s[i])]

(***************************************************************************)
(* isinstance(x, int) and isinstance(x, float): HTCInt derives from int,   *)
(* HTCFloat from float, and Python's bool from int.                        *)
(***************************************************************************)
IsPyInt(x) == x.t \in {"Int", "pyint", "pybool"}
IsPyFloat(x) == x.t \in {"Real", "pyfloat"}
IntVal(x) == IF x.t = "pybool" THEN (IF x.b THEN 1 ELSE 0) ELSE x.i

(***************************************************************************)
(* int methods inherited by HTCInt.                                        *)
(***************************************************************************)
RECURSIVE int_bitand(_, _)
int_bitand(x, y) ==
  IF x = 0 \/ y = 0 THEN 0
  ELSE IF x = -1 THEN y
  ELSE IF y = -1 THEN x
  ELSE (x % 2) * (y % 2) + 2 * int_bitand(x \div 2, y \div 2)

RECURSIVE int_bitor(_, _)
int_bitor(x, y) ==
  IF x = 0 THEN y
  ELSE IF y = 0 THEN x
  ELSE IF x = -1 \/ y = -1 THEN -1
  ELSE (IF x % 2 = 1 \/ y % 2 = 1 THEN 1 ELSE 0)
       + 2 * int_bitor(x \div 2, y \div 2)

\* int.__and__ and int.__rand__; bool.__and__ keeps bool for two bools
int_and(self, other) ==
  IF self.t = "pybool" /\ other.t = "pybool" THEN PyBool(self.b /\ other.b)
  ELSE IF IsPyInt(other) THEN PyInt(int_bitand(IntVal(self), IntVal(other)))
  ELSE NotImplemented

\* int.__or__ and int.__ror__
int_or(self, other) ==
  IF self.t = "pybool" /\ other.t = "pybool" THEN PyBool(self.b \/ other.b)
  ELSE IF IsPyInt(other) THEN PyInt(int_bitor(IntVal(self), IntVal(other)))
  ELSE NotImplemented

\* int.__add__ and int.__radd__
int_add(self, other) ==
  IF IsPyInt(other) THEN PyInt(IntVal(self) + IntVal(other)) ELSE NotImplemented

(***************************************************************************)
(* Undefined and Error.                                                    *)
(***************************************************************************)
Undefined_htc_eq(self, other) ==
  IF other.t = "Error" THEN NotImplemented ELSE Undefined

\* Undefined.__and__ without its test for a false operand
Undefined_and_without_false(self, other) == Undefined_htc_eq(self, other)

Undefined_and(self, other) ==
  IF other.t = "Bool" /\ ~other.b THEN HTCBool(FALSE)
  ELSE Undefined_htc_eq(self, other)

Undefined_or(self, other) ==
  IF other.t = "Bool" /\ other.b THEN HTCBool(TRUE)
  ELSE Undefined_htc_eq(self, other)

Error_htc_eq(self, other) == Error

(***************************************************************************)
(* HTCBool.                                                                *)
(***************************************************************************)
HTCBool_or(self, other) ==
  IF ~self.b
  THEN IF other.t \in {"Bool", "Undefined"} THEN other ELSE Error
  ELSE HTCBool(TRUE)

HTCBool_and(self, other) ==
  IF ~self.b
  THEN HTCBool(FALSE)
  ELSE IF other.t \in {"Bool", "Undefined"} THEN other ELSE Error

HTCBool_htc_not(self) == HTCBool(~self.b)

HTCBool_htc_eq(self, other) ==
  IF other.t = "Bool" THEN HTCBool(self.b = other.b)
  ELSE IF other.t \in {"Undefined", "Error"} THEN NotImplemented
  ELSE IF other.t = "pybool" THEN HTCBool(self.b = other.b)
  ELSE Error

HTCBool_htc_ne(self, other) == HTCBool_htc_eq(HTCBool_htc_not(self), other)

(***************************************************************************)
(* HTCInt, HTCFloat and HTCStr: the three-valued equality.                 *)
(***************************************************************************)
\* a Real is the fraction n/d in lowest terms with d > 0
NumN(x) == IF IsPyInt(x) THEN IntVal(x) ELSE x.n
NumD(x) == IF IsPyInt(x) THEN 1 ELSE x.d
NumEq(x, y) == NumN(x) * NumD(y) = NumN(y) * NumD(x)

HTCInt_htc_eq(self, other) ==
  IF IsPyInt(other) THEN HTCBool(self.i = IntVal(other))
  ELSE IF other.t \in {"Undefined", "Error", "Real"} THEN NotImplemented
  ELSE IF other.t = "pyfloat" THEN HTCBool(NumEq(self, other))
  ELSE Error

HTCFloat_htc_eq(self, other) ==
  IF IsPyInt(other) \/ IsPyFloat(other) THEN HTCBool(NumEq(self, other))
  ELSE IF other.t \in {"Undefined", "Error"} THEN NotImplemented
  ELSE Error

HTCStr_htc_eq(self, other) ==
  IF other.t \in {"Str", "str"} THEN HTCBool(lower(self.s) = lower(other.s))
  ELSE NotImplemented

\* HTCInt.__htc_ne__, HTCStr.__htc_ne__ and HTCFloat.__htc_ne__ share this body
negate_htc_eq(res) == IF res.t = "Bool" THEN HTCBool(~res.b) ELSE res

PrimitiveExpression_htc_eq(self, other) == NotImplemented

\* a.__htc_eq__(b): the method the class of a resolves it to.  ClassAd and the
\* syntax-tree classes define none and inherit none from Expression, so the
\* attribute lookup raises AttributeError
htc_eq(a, b) ==
  CASE a.t = "Undefined" -> Undefined_htc_eq(a, b)
    [] a.t = "Error" -> Error_htc_eq(a, b)
    [] a.t = "Bool" -> HTCBool_htc_eq(a, b)
    [] a.t = "Int" -> HTCInt_htc_eq(a, b)
    [] a.t = "Real" -> HTCFloat_htc_eq(a, b)
    [] a.t = "Str" -> HTCStr_htc_eq(a, b)
    [] a.t = "List" -> PrimitiveExpression_htc_eq(a, b)
    [] OTHER -> Raise("AttributeError")

\* a.__htc_ne__(b)
htc_ne(a, b) ==
  CASE a.t = "Undefined" -> Undefined_htc_eq(a, b)
    [] a.t = "Error" -> Error_htc_eq(a, b)
    [] a.t = "Bool" -> HTCBool_htc_ne(a, b)
    [] a.t = "Int" -> negate_htc_eq(HTCInt_htc_eq(a, b))
    [] a.t = "Real" -> negate_htc_eq(HTCFloat_htc_eq(a, b))
    [] a.t = "Str" -> negate_htc_eq(HTCStr_htc_eq(a, b))
    [] a.t = "List" -> PrimitiveExpression_htc_eq(a, b)
    [] OTHER -> Raise("AttributeError")

eq_operator(a, b) ==
  LET res == htc_eq(a, b)
  IN IF res = NotImplemented THEN htc_eq(b, a) ELSE res

ne_operator(a, b) ==
  LET res == htc_ne(a, b)
  IN IF res = NotImplemented THEN htc_ne(b, a) ELSE res


(***************************************************************************)
(* The syntax tree.  _expression is a Python str or tuple.                 *)
(***************************************************************************)
AttributeExpression(x) == [t |-> "Attr", x |-> x]
ArithmeticExpression(x) == [t |-> "Arith", x |-> PyTuple(x)]
TernaryExpression(x) == [t |-> "Ternary", x |-> PyTuple(x)]
DotExpression(x) == [t |-> "Dot", x |-> PyTuple(x)]
SubscriptableExpression(x) == [t |-> "Subscript", x |-> PyTuple(x)]
\* _name is written as a string of the model
FunctionExpression(name, args) == [t |-> "Function", name |-> name, x |-> PyTuple(args)]

\* the keys of ArithmeticExpression.operator_map modelled so far
Op ==
  [ Add |-> PyStr(<<"+">>),
    Eq |-> PyStr(<<"=", "=">>),
    Ne |-> PyStr(<<"!", "=">>),
    And |-> PyStr(<<"&", "&">>),
    Or |-> PyStr(<<"|", "|">>),
    Isnt |-> PyStr(<<"i", "s", "n", "t">>),
    MetaNe |-> PyStr(<<"=", "!", "=">>),
    Is |-> PyStr(<<"i", "s">>),
    MetaEq |-> PyStr(<<"=", "?", "=">>),
    Sub |-> PyStr(<<"-">>),
    Mul |-> PyStr(<<"*">>),
    Div |-> PyStr(<<"/">>),
    Lt |-> PyStr(<<"<">>),
    Le |-> PyStr(<<"<", "=">>),
    Ge |-> PyStr(<<">", "=">>),
    Gt |-> PyStr(<<">">>) ]

(***************************************************************************)
(* Python's == on the objects of the model (operator.eq).                  *)
(***************************************************************************)
\* bool(x) for the objects __eq__ returns; NotImplemented from both sides
\* leaves the identity test, false for two distinct objects
truth(x) == IF x.t \in {"Bool", "pybool"} THEN x.b ELSE FALSE

\* operator_map[k]: "isnt" and "=!=" are one function, "is" and "=?=" another
operator_map(k) ==
  CASE k.t # "str" -> "KeyError"
    [] k.s \in {<<"i", "s", "n", "t">>, <<"=", "!", "=">>} -> "operator.ne"
    [] k.s \in {<<"i", "s">>, <<"=", "?", "=">>} -> "operator.eq"
    [] k.s = <<"+">> -> "operator.add"
    [] k.s = <<"-">> -> "operator.sub"
    [] k.s = <<"*">> -> "operator.mul"
    [] k.s = <<"/">> -> "operator.truediv"
    [] k.s = <<"<">> -> "operator.lt"
    [] k.s = <<"<", "=">> -> "operator.le"
    [] k.s = <<">", "=">> -> "operator.ge"
    [] k.s = <<">">> -> "operator.gt"
    [] k.s = <<"&", "&">> -> "operator.and_"
    [] k.s = <<"|", "|">> -> "operator.or_"
    [] k.s = <<"=", "=">> -> "eq_operator"
    [] k.s = <<"!", "=">> -> "ne_operator"
    [] OTHER -> "KeyError"

\* when neither operand implements the comparison Python compares identities;
\* the two operands of a comparison are distinct objects
identity(res, distinct) == IF res = NotImplemented THEN PyBool(distinct) ELSE res

RECURSIVE py_eq(_, _)
RECURSIVE eq_method(_, _)

\* a.__eq__(b)
eq_method(a, b) ==
  CASE a.t \in {"Undefined", "Error"} -> HTCBool(a.t = b.t)
    [] a.t = "Int" ->
         IF IsPyInt(b) THEN HTCBool(a.i = IntVal(b))
         ELSE IF IsPyFloat(b) THEN NotImplemented
         ELSE HTCBool(FALSE)
    [] a.t = "Real" ->
         IF IsPyInt(b) \/ IsPyFloat(b) THEN HTCBool(NumEq(a, b))
         ELSE HTCBool(FALSE)
    [] a.t = "Str" -> HTCBool(b.t = "Str" /\ a.s = b.s)
    [] a.t \in {"pyint", "pybool"} ->
         IF IsPyInt(b) THEN PyBool(IntVal(a) = IntVal(b)) ELSE NotImplemented
    [] a.t = "pyfloat" ->
         IF IsPyInt(b) \/ IsPyFloat(b) THEN PyBool(NumEq(a, b))
         ELSE NotImplemented
    [] a.t = "Bool" ->
         PyBool((b.t = "Bool" /\ a.b = b.b) \/ (b.t = "pybool" /\ a.b = b.b))
    [] a.t \in {"List", "tuple"} ->
         IF b.t \in {"List", "tuple"}
         THEN PyBool(Len(a.l) = Len(b.l)
                     /\ \A i \in 1..Len(a.l) : truth(py_eq(a.l[i], b.l[i])))
         ELSE NotImplemented
    [] a.t = "str" ->
         IF b.t \in {"str", "Str"} THEN PyBool(a.s = b.s) ELSE NotImplemented
    [] a.t = "None" -> IF b.t = "None" THEN PyBool(TRUE) ELSE NotImplemented
    [] a.t = "dict" ->
         IF b.t = "dict"
         THEN PyBool(DOMAIN a.data = DOMAIN b.data
                     /\ \A k \in DOMAIN a.data : truth(py_eq(a.data[k], b.data[k])))
         ELSE NotImplemented
    [] a.t = "Record" ->
         HTCBool(b.t = "Record"
                 /\ DOMAIN a.data = DOMAIN b.data
                 /\ \A k \in DOMAIN a.data : truth(py_eq(a.data[k], b.data[k])))
    [] a.t = "Arith" ->
         IF b.t = "Arith"
         THEN PyBool(/\ truth(py_eq(a.x.l[1], b.x.l[1]))
                     /\ operator_map(a.x.l[2]) = operator_map(b.x.l[2])
                     /\ truth(py_eq(a.x.l[3], b.x.l[3])))
         ELSE PyBool(FALSE)
    [] a.t \in {"Attr", "Ternary", "Dot"} ->
         PyBool(a.t = b.t /\ truth(py_eq(a.x, b.x)))
    [] OTHER -> NotImplemented

\* a == b: a subclass on the right is asked first, then the left operand,
\* then the right one
py_eq(a, b) ==
  IF \/ (a.t = "pyint" /\ b.t = "Int")
     \/ (a.t = "pyfloat" /\ b.t = "Real")
     \/ (a.t = "str" /\ b.t = "Str")
     \/ (a.t = "tuple" /\ b.t = "List")
  THEN LET res == eq_method(b, a)
       IN IF res # NotImplemented THEN res ELSE identity(eq_method(a, b), FALSE)
  ELSE LET res == eq_method(a, b)
       IN IF res # NotImplemented THEN res ELSE identity(eq_method(b, a), FALSE)

\* object.__ne__, inherited by the classes that only define __eq__
object_ne(a, b) ==
  LET inverted(res) == IF res = NotImplemented THEN NotImplemented ELSE PyBool(~truth(res))
  IN inverted(eq_method(a, b))

\* a.__ne__(b)
ne_method(a, b) ==
  CASE a.t \in {"Undefined", "Error"} -> HTCBool(~truth(eq_method(a, b)))
    [] a.t = "Int" ->
         IF IsPyInt(b) THEN HTCBool(a.i # IntVal(b))
         ELSE IF IsPyFloat(b) THEN NotImplemented
         ELSE HTCBool(TRUE)
    [] a.t = "Real" ->
         IF IsPyInt(b) \/ IsPyFloat(b) THEN HTCBool(~NumEq(a, b))
         ELSE HTCBool(FALSE)
    [] a.t = "Str" -> HTCBool(b.t # "Str" \/ a.s # b.s)
    [] a.t = "Bool" ->
         PyBool((b.t = "Bool" /\ a.b # b.b) \/ ~(b.t = "pybool" /\ a.b = b.b))
    [] OTHER -> object_ne(a, b)

\* a != b: the result of the method asked first, else of the other one, else
\* the default comparison of identities
py_ne(a, b) ==
  LET asked(res, other) == IF res # NotImplemented THEN res ELSE identity(other, TRUE)
      ask(x, y) == asked(ne_method(x, y), ne_method(y, x))
  IN
  IF \/ (a.t = "pyint" /\ b.t = "Int")
     \/ (a.t = "pyfloat" /\ b.t = "Real")
     \/ (a.t = "str" /\ b.t = "Str")
     \/ (a.t = "tuple" /\ b.t = "List")
  THEN ask(b, a)
  ELSE ask(a, b)

(***************************************************************************)
(* Arithmetic and logical operators as Python dispatches them.             *)
(***************************************************************************)
RECURSIVE gcd(_, _)
gcd(x, y) == IF y = 0 THEN x ELSE gcd(y, x % y)

abs(x) == IF x < 0 THEN -x ELSE x

\* the fraction n/d (d > 0) in lowest terms
Frac(n, d) == LET g == gcd(abs(n), d) IN <<n \div g, d \div g>>

HTCInt_add(self, other) ==
  IF IsPyInt(other) THEN HTCInt(self.i + IntVal(other))
  ELSE IF IsPyFloat(other) \/ other.t \in {"Undefined", "Error"} THEN NotImplemented
  ELSE Error

\* float.__add__ and float.__radd__, inherited by HTCFloat
float_add(self, other) ==
  IF IsPyInt(other) \/ IsPyFloat(other)
  THEN LET f == Frac(NumN(self) * NumD(other) + NumN(other) * NumD(self),
                     NumD(self) * NumD(other))
       IN PyFloat(f[1], f[2])
  ELSE NotImplemented

HTCBool_add(self, other) == Error

ClassAd_add(self, other) == Error

\* a.__add__(b)
add_method(a, b) ==
  CASE a.t = "Undefined" -> Undefined_htc_eq(a, b)
    [] a.t = "Error" -> Error_htc_eq(a, b)
    [] a.t = "Bool" -> HTCBool_add(a, b)
    [] a.t = "Int" -> HTCInt_add(a, b)
    [] a.t = "Real" -> float_add(a, b)
    [] a.t = "Record" -> ClassAd_add(a, b)
    [] a.t \in {"pyint", "pybool"} -> int_add(a, b)
    [] a.t = "pyfloat" -> float_add(a, b)
    [] OTHER -> Missing

\* b.__radd__(a)
radd_method(b, a) ==
  CASE b.t = "Undefined" -> Undefined_htc_eq(b, a)
    [] b.t = "Error" -> Error_htc_eq(b, a)
    [] b.t = "Int" -> HTCInt_add(b, a)
    [] b.t = "Real" -> float_add(b, a)
    [] b.t = "Record" -> ClassAd_add(b, a)
    [] b.t \in {"pyint", "pybool"} -> int_add(b, a)
    [] b.t = "pyfloat" -> float_add(b, a)
    [] OTHER -> Missing

\* a.__and__(b)
and_method(a, b) ==
  CASE a.t = "Undefined" -> Undefined_and(a, b)
    [] a.t = "Error" -> Error_htc_eq(a, b)
    [] a.t = "Bool" -> HTCBool_and(a, b)
    [] a.t \in {"Int", "pyint", "pybool"} -> int_and(a, b)
    [] OTHER -> Missing

\* b.__rand__(a)
rand_method(b, a) ==
  CASE b.t = "Undefined" -> Undefined_htc_eq(b, a)
    [] b.t = "Error" -> Error_htc_eq(b, a)
    [] b.t \in {"Int", "pyint", "pybool"} -> int_and(b, a)
    [] OTHER -> Missing

\* a.__or__(b)
or_method(a, b) ==
  CASE a.t = "Undefined" -> Undefined_or(a, b)
    [] a.t = "Error" -> Error_htc_eq(a, b)
    [] a.t = "Bool" -> HTCBool_or(a, b)
    [] a.t \in {"Int", "pyint", "pybool"} -> int_or(a, b)
    [] OTHER -> Missing

\* b.__ror__(a)
ror_method(b, a) ==
  CASE b.t = "Undefined" -> Undefined_htc_eq(b, a)
    [] b.t = "Error" -> Error_htc_eq(b, a)
    [] b.t \in {"Int", "pyint", "pybool"} -> int_or(b, a)
    [] OTHER -> Missing

\* Python's binary operator protocol: the method of the left operand, then
\* the reflected method of a right operand of another class, then TypeError
binary_op(a, b, forward, reflected) ==
  IF forward \notin {NotImplemented, Missing} THEN forward
  ELSE IF a.t # b.t /\ reflected \notin {NotImplemented, Missing} THEN reflected
  ELSE Raise("TypeError")

\* HTCInt overrides __radd__, so it is asked before an int on the left
radd_first(a, b) == a.t = "pyint" /\ b.t = "Int"

\* operator.add: the number protocol, then concatenation of str and tuple
operator_add(a, b) ==
  LET concat(res) ==
        IF res # Raise("TypeError") THEN res
        ELSE IF a.t \in {"Str", "str"} /\ b.t \in {"Str", "str"} THEN PyStr(a.s \o b.s)
        ELSE IF a.t \in {"List", "tuple"} /\ b.t \in {"List", "tuple"}
             THEN PyTuple(a.l \o b.l)
        ELSE Raise("TypeError")
  IN concat(IF radd_first(a, b) THEN HTCInt_add(b, a)
            ELSE binary_op(a, b, add_method(a, b), radd_method(b, a)))

(***************************************************************************)
(* Subtraction, multiplication and division.  op is "sub", "mul" or        *)
(* "truediv"; x is the left and y the right operand of the operation.      *)
(***************************************************************************)
\* x op y over fractions, as <<numerator, denominator>> in lowest terms
num_arith(op, x, y) ==
  CASE op = "sub" -> Frac(NumN(x) * NumD(y) - NumN(y) * NumD(x), NumD(x) * NumD(y))
    [] op = "mul" -> Frac(NumN(x) * NumN(y), NumD(x) * NumD(y))
    [] op = "truediv" ->
         IF NumN(y) > 0 THEN Frac(NumN(x) * NumD(y), NumD(x) * NumN(y))
         ELSE Frac(-(NumN(x) * NumD(y)), NumD(x) * (-NumN(y)))

\* the float of a fraction
float_of(f) == PyFloat(f[1], f[2])

\* int.__sub__, int.__mul__, int.__truediv__ and their reflected methods
int_arith(op, x, y) ==
  IF ~(IsPyInt(x) /\ IsPyInt(y)) THEN NotImplemented
  ELSE IF op = "truediv"
  THEN IF IntVal(y) = 0 THEN Raise("ZeroDivisionError")
       ELSE float_of(num_arith(op, x, y))
  ELSE PyInt(num_arith(op, x, y)[1])

\* float.__sub__, float.__mul__, float.__truediv__ and their reflected methods
float_arith(op, x, y) ==
  IF ~((IsPyInt(x) \/ IsPyFloat(x)) /\ (IsPyInt(y) \/ IsPyFloat(y))) THEN NotImplemented
  ELSE IF op = "truediv" /\ NumN(y) = 0 THEN Raise("ZeroDivisionError")
  ELSE float_of(num_arith(op, x, y))

\* HTCFloat(f), or Error when the operation raised
HTCFloat_of(f) == IF IsRaise(f) THEN Error ELSE HTCFloat(f.n, f.d)

HTCInt_sub(self, other) ==
  IF IsPyInt(other) THEN HTCInt(int_arith("sub", self, other).i)
  ELSE IF IsPyFloat(other) \/ other.t \in {"Undefined", "Error"} THEN NotImplemented
  ELSE Error

HTCInt_mul(self, other) ==
  IF IsPyInt(other) THEN HTCInt(int_arith("mul", self, other).i)
  ELSE IF IsPyFloat(other) \/ other.t \in {"Undefined", "Error"} THEN NotImplemented
  ELSE Error

HTCInt_truediv(self, other) ==
  IF IsPyInt(other)
  THEN HTCFloat_of(int_arith("truediv", self, other))
  ELSE IF IsPyFloat(other) \/ other.t \in {"Undefined", "Error"} THEN NotImplemented
  ELSE Error

\* HTCFloat.__mul__ and HTCFloat.__rmul__
HTCFloat_mul(self, other) ==
  IF IsPyInt(other) \/ IsPyFloat(other)
  THEN HTCFloat_of(float_arith("mul", self, other))
  ELSE IF other.t \in {"Undefined", "Error"} THEN NotImplemented
  ELSE Error

\* a.__sub__(b), a.__mul__(b) or a.__truediv__(b)
arith_method(op, a, b) ==
  CASE a.t = "Undefined" -> Undefined_htc_eq(a, b)
    [] a.t = "Error" -> Error_htc_eq(a, b)
    [] a.t = "Bool" -> HTCBool_add(a, b)
    [] a.t = "Int" ->
         (CASE op = "sub" -> HTCInt_sub(a, b)
            [] op = "mul" -> HTCInt_mul(a, b)
            [] op = "truediv" -> HTCInt_truediv(a, b))
    [] a.t = "Real" -> IF op = "mul" THEN HTCFloat_mul(a, b) ELSE float_arith(op, a, b)
    [] a.t = "Record" -> IF op = "sub" THEN ClassAd_add(a, b) ELSE Missing
    [] a.t \in {"pyint", "pybool"} -> int_arith(op, a, b)
    [] a.t = "pyfloat" -> float_arith(op, a, b)
    [] OTHER -> Missing

\* b.__rsub__(a), b.__rmul__(a) or b.__rtruediv__(a)
rarith_method(op, b, a) ==
  CASE b.t = "Undefined" -> Undefined_htc_eq(b, a)
    [] b.t = "Error" -> Error_htc_eq(b, a)
    [] b.t \in {"Int", "pyint", "pybool"} -> int_arith(op, a, b)
    [] b.t = "Real" -> IF op = "mul" THEN HTCFloat_mul(b, a) ELSE float_arith(op, a, b)
    [] b.t = "Record" -> IF op = "sub" THEN ClassAd_add(b, a) ELSE Missing
    [] b.t = "pyfloat" -> float_arith(op, a, b)
    [] OTHER -> Missing

RECURSIVE repeat(_, _)
\* the sequence s taken n times
repeat(s, n) == IF n <= 0 THEN <<>> ELSE s \o repeat(s, n - 1)

\* HTCFloat overrides __rmul__, so it is asked before a float on the left
rmul_first(a, b) == a.t = "pyfloat" /\ b.t = "Real"

\* operator.sub, operator.mul and operator.truediv: the number protocol,
\* then for operator.mul the repetition of a str or a tuple
operator_arith(op, a, b) ==
  LET repetition(res) ==
        IF op # "mul" \/ res # Raise("TypeError") THEN res
        ELSE IF a.t \in {"Str", "str"} /\ IsPyInt(b) THEN PyStr(repeat(a.s, IntVal(b)))
        ELSE IF IsPyInt(a) /\ b.t \in {"Str", "str"} THEN PyStr(repeat(b.s, IntVal(a)))
        ELSE IF a.t \in {"List", "tuple"} /\ IsPyInt(b) THEN PyTuple(repeat(a.l, IntVal(b)))
        ELSE IF IsPyInt(a) /\ b.t \in {"List", "tuple"} THEN PyTuple(repeat(b.l, IntVal(a)))
        ELSE Raise("TypeError")
  IN repetition(IF op = "mul" /\ rmul_first(a, b) THEN HTCFloat_mul(b, a)
                ELSE binary_op(a, b, arith_method(op, a, b), rarith_method(op, b, a)))

(***************************************************************************)
(* Ordering.  cmp is "lt", "le", "ge" or "gt".                             *)
(***************************************************************************)
\* the comparison Python asks of the right operand
swapped(cmp) ==
  CASE cmp = "lt" -> "gt" [] cmp = "le" -> "ge" [] cmp = "ge" -> "le" [] cmp = "gt" -> "lt"

\* the order of two integers
int_compare(cmp, x, y) ==
  CASE cmp = "lt" -> x < y [] cmp = "le" -> x <= y [] cmp = "ge" -> x >= y [] cmp = "gt" -> x > y

\* the code point of a character
ord(c) ==
  CASE c = "A" -> 65 [] c = "B" -> 66 [] c = "C" -> 67 [] c = "D" -> 68
    [] c = "a" -> 97 [] c = "b" -> 98 [] c = "c" -> 99 [] c = "d" -> 100
    [] OTHER -> 0

RECURSIVE str_compare(_, _, _)
\* str.__lt__ and its siblings: the order of the first differing code point
str_compare(cmp, x, y) ==
  IF x = <<>> \/ y = <<>> THEN int_compare(cmp, Len(x), Len(y))
  ELSE IF ord(Head(x)) # ord(Head(y)) THEN int_compare(cmp, ord(Head(x)), ord(Head(y)))
  ELSE str_compare(cmp, Tail(x), Tail(y))

\* HTCInt.__lt__, __le__, __ge__ and __gt__
HTCInt_compare(cmp, self, other) ==
  IF IsPyInt(other) THEN HTCBool(int_compare(cmp, self.i, IntVal(other)))
  ELSE NotImplemented

\* float.__lt__ and its siblings
float_compare(cmp, x, y) ==
  IF IsPyInt(y) \/ IsPyFloat(y)
  THEN PyBool(int_compare(cmp, NumN(x) * NumD(y), NumN(y) * NumD(x)))
  ELSE NotImplemented

RECURSIVE operator_compare(_, _, _)

\* tuple.__lt__ and its siblings: the comparison of the first unequal items,
\* of the lengths when there is none
tuple_compare(cmp, x, y) ==
  LET first_of(unequal) ==
        IF unequal = {} THEN 0 ELSE CHOOSE j \in unequal : \A k \in unequal : j <= k
      compare_at(i) ==
        IF i = 0 THEN PyBool(int_compare(cmp, Len(x), Len(y)))
        ELSE operator_compare(cmp, x[i], y[i])
  IN compare_at(first_of({i \in 1..Len(x) : i <= Len(y) /\ ~truth(py_eq(x[i], y[i]))}))

\* a.__lt__(b), a.__le__(b), a.__ge__(b) or a.__gt__(b)
compare_method(cmp, a, b) ==
  CASE a.t = "Undefined" -> Undefined_htc_eq(a, b)
    [] a.t = "Error" -> Error_htc_eq(a, b)
    [] a.t = "Bool" -> HTCBool_add(a, b)
    [] a.t = "Int" -> HTCInt_compare(cmp, a, b)
    [] a.t \in {"Real", "pyfloat"} -> float_compare(cmp, a, b)
    [] a.t \in {"pyint", "pybool"} ->
         IF IsPyInt(b) THEN PyBool(int_compare(cmp, IntVal(a), IntVal(b)))
         ELSE NotImplemented
    [] a.t \in {"Str", "str"} ->
         IF b.t \in {"Str", "str"} THEN PyBool(str_compare(cmp, a.s, b.s))
         ELSE NotImplemented
    [] a.t \in {"List", "tuple"} ->
         IF b.t \in {"List", "tuple"} THEN tuple_compare(cmp, a.l, b.l)
         ELSE NotImplemented
    [] OTHER -> NotImplemented

\* operator.lt, operator.le, operator.ge and operator.gt
operator_compare(cmp, a, b) ==
  LET first_implemented(forward, reflected) ==
        IF forward # NotImplemented THEN forward
        ELSE IF reflected # NotImplemented THEN reflected
        ELSE Raise("TypeError")
  IN IF a.t = "pyint" /\ b.t = "Int" THEN HTCInt_compare(swapped(cmp), b, a)
     ELSE first_implemented(compare_method(cmp, a, b), compare_method(swapped(cmp), b, a))

operator_and(a, b) == binary_op(a, b, and_method(a, b), rand_method(b, a))

operator_or(a, b) == binary_op(a, b, or_method(a, b), ror_method(b, a))

\* ArithmeticExpression._calculate: the operator the map names, applied to
\* the operands, and Error for the four exceptions the except clause names
calculate(first, second, operand) ==
  LET arith_name(f) ==
        CASE f = "operator.sub" -> "sub" [] f = "operator.mul" -> "mul"
          [] f = "operator.truediv" -> "truediv"
      compare_name(f) ==
        CASE f = "operator.lt" -> "lt" [] f = "operator.le" -> "le"
          [] f = "operator.ge" -> "ge" [] f = "operator.gt" -> "gt"
      apply(f) ==
        CASE f = "operator.add" -> operator_add(first, second)
          [] f \in {"operator.sub", "operator.mul", "operator.truediv"} ->
               operator_arith(arith_name(f), first, second)
          [] f \in {"operator.lt", "operator.le", "operator.ge", "operator.gt"} ->
               operator_compare(compare_name(f), first, second)
          [] f = "operator.and_" -> operator_and(first, second)
          [] f = "operator.or_" -> operator_or(first, second)
          [] f = "eq_operator" -> eq_operator(first, second)
          [] f = "ne_operator" -> ne_operator(first, second)
          [] f = "operator.eq" -> py_eq(first, second)
          [] f = "operator.ne" -> py_ne(first, second)
          [] OTHER -> Raise("KeyError")
      caught(res) ==
        IF res \in {Raise("ArithmeticError"), Raise("ZeroDivisionError"),
                    Raise("AttributeError"), Raise("TypeError")}
        THEN Error
        ELSE res
  IN caught(apply(operator_map(operand)))

(***************************************************************************)
(* Python sequences used as keys: a str, or a list or tuple of str (both   *)
(* are PyTuple here, the evaluator only slices, indexes and iterates them).*)
(***************************************************************************)
\* len(x) raises TypeError on the other objects
sized(x) == x.t \in {"str", "tuple"}

len(x) == IF x.t = "str" THEN Len(x.s) ELSE Len(x.l)

\* x[i], counting from 0
index(x, i) ==
  CASE x.t = "str" ->
         IF i < Len(x.s) THEN PyStr(<<x.s[i + 1]>>) ELSE Raise("IndexError")
    [] x.t = "tuple" -> IF i < Len(x.l) THEN x.l[i + 1] ELSE Raise("IndexError")
    [] OTHER -> Raise("TypeError")

\* x[-1]
last(x) ==
  CASE x.t = "str" ->
         IF Len(x.s) > 0 THEN PyStr(<<x.s[Len(x.s)]>>) ELSE Raise("IndexError")
    [] x.t = "tuple" -> IF Len(x.l) > 0 THEN x.l[Len(x.l)] ELSE Raise("IndexError")
    [] OTHER -> Raise("TypeError")

\* key[:-1]
scope_up(key) ==
  CASE key.t = "str" -> PyStr(SubSeq(key.s, 1, Len(key.s) - 1))
    [] key.t = "tuple" -> PyTuple(SubSeq(key.l, 1, Len(key.l) - 1))
    [] OTHER -> Raise("TypeError")

\* str.split(".")
RECURSIVE split(_, _)
split(s, word) ==
  IF s = <<>> THEN <<PyStr(word)>>
  ELSE IF Head(s) = "." THEN <<PyStr(word)>> \o split(Tail(s), <<>>)
  ELSE split(Tail(s), Append(word, Head(s)))

(***************************************************************************)
(* ClassAd of classad/_expression.py.                                      *)
(***************************************************************************)
reserved ==
  { <<"e", "r", "r", "o", "r">>, <<"f", "a", "l", "s", "e">>, <<"i", "s">>,
    <<"i", "s", "n", "t">>, <<"p", "a", "r", "e", "n", "t">>,
    <<"t", "r", "u", "e">>, <<"u", "n", "d", "e", "f", "i", "n", "e", "d">> }

\* __setitem__ storing the name as it is written, reserved or not
ClassAd_setitem_as_written(self, key, value) ==
  ClassAd([n \in DOMAIN self.data \cup {key.s} |->
             IF n = key.s THEN value ELSE self.data[n]])

\* ClassAd.__setitem__ with a str key: the record after the call, or the exception
ClassAd_setitem(self, key, value) ==
  LET k == casefold(IF key.t = "Attr" THEN key.x.s ELSE key.s)
  IN IF k \in reserved THEN Raise("ValueError")
     ELSE ClassAd([n \in DOMAIN self.data \cup {k} |->
                     IF n = k THEN value ELSE self.data[n]])

\* ClassAd.__delitem__ with a str key: the record after the call
ClassAd_delitem(self, key) ==
  ClassAd([n \in DOMAIN self.data \ {key.s} |-> self.data[n]])

RECURSIVE ClassAd_getitem(_, _)
RECURSIVE getitem_loop(_, _)
RECURSIVE subscript(_, _)

\* expression[token] for a str token
subscript(expression, token) ==
  CASE expression.t = "dict" ->
         IF token.s \in DOMAIN expression.data
         THEN expression.data[token.s]
         ELSE Raise("KeyError")
    [] expression.t = "Record" -> ClassAd_getitem(expression, token)
    [] OTHER -> Raise("TypeError")

\* the for loop of ClassAd.__getitem__
getitem_loop(expression, tokens) ==
  IF tokens = <<>> THEN expression
  ELSE IF Head(tokens).t # "str" THEN Raise("AttributeError")
  ELSE LET found == subscript(expression, PyStr(casefold(Head(tokens).s)))
       IN IF found = Raise("KeyError") THEN Undefined
          ELSE IF IsRaise(found) THEN found
          ELSE getitem_loop(found, Tail(tokens))

ClassAd_getitem(self, key) ==
  CASE key.t = "str" -> getitem_loop(PyDict(self.data), <<key>>)
    [] key.t = "tuple" -> getitem_loop(PyDict(self.data), key.l)
    [] OTHER -> Raise("TypeError")

\* obj[key] as the evaluator writes it, for any object obj
getitem(obj, key) ==
  CASE obj.t = "Record" -> ClassAd_getitem(obj, key)
    [] obj.t = "dict" ->
         IF key.t = "str" /\ key.s \in DOMAIN obj.data
         THEN obj.data[key.s]
         ELSE Raise("KeyError")
    [] OTHER -> Raise("TypeError")

(***************************************************************************)
(* The grammar.  A text is a sequence of characters; a production takes a  *)
(* position in the text and gives the value it parsed and the position     *)
(* after it, or no match.  pyparsing skips white space before every token  *)
(* and tries the alternatives of a MatchFirst in their order.  The texts   *)
(* of the model are written with letters, decimal digits, = ; [ ] blanks   *)
(* and newlines, or start with <; the productions that need another        *)
(* character to match (lists, calls, strings, reals, parentheses, the      *)
(* selection with . and the other operators) match nowhere in them, and    *)
(* no text spells a keyword literal.                                       *)
(***************************************************************************)
\* the digits of integer_literal and their values
nums == [c \in {"0", "1", "2", "3", "4", "5", "6", "7", "8", "9"} |->
           CASE c = "0" -> 0 [] c = "1" -> 1 [] c = "2" -> 2 [] c = "3" -> 3
             [] c = "4" -> 4 [] c = "5" -> 5 [] c = "6" -> 6 [] c = "7" -> 7
             [] c = "8" -> 8 [] c = "9" -> 9]

\* the letters of unquoted_name
alphas ==
  {"a", "b", "c", "d", "e", "f", "g", "h", "i", "j", "k", "l", "m", "n", "o",
   "p", "q", "r", "s", "t", "u", "v", "w", "x", "y", "z", "A", "B", "C", "D",
   "E", "F", "G", "H", "I", "J", "K", "L", "M", "N", "O", "P", "Q", "R", "S",
   "T", "U", "V", "W", "X", "Y", "Z"}

RECURSIVE from_grammar(_)
\* ClassAd.from_grammar: the record of the definitions <<name, expression>>,
\* inserted in their order, or the exception of the insertion that raises
from_grammar(tokens) ==
  LET insert(before, token) ==
        IF IsRaise(before) THEN before
        ELSE ClassAd_setitem(before, PyStr(token[1]), token[2])
  IN IF tokens = <<>> THEN ClassAd(<<>>)
     ELSE insert(from_grammar(SubSeq(tokens, 1, Len(tokens) - 1)), tokens[Len(tokens)])

\* parse(content): expression.parseString(content, parseAll=True)[0]
parse(content) ==
  LET NoMatch == [ok |-> FALSE]
      Match(v, pos) == [ok |-> TRUE, v |-> v, pos |-> pos]
      RECURSIVE skip(_)
      skip(pos) ==
        IF pos <= Len(content) /\ content[pos] \in {" ", "\n"} THEN skip(pos + 1)
        ELSE pos
      \* pp.Literal(text) after the white space at pos
      Literal(text, pos) ==
        LET at(p) ==
              IF p + Len(text) - 1 <= Len(content)
                 /\ SubSeq(content, p, p + Len(text) - 1) = text
              THEN Match(text, p + Len(text))
              ELSE NoMatch
        IN at(skip(pos))
      \* the first of the literals that matches
      RECURSIVE oneOf(_, _)
      oneOf(texts, pos) ==
        LET first_of(match) ==
              IF match.ok \/ Tail(texts) = <<>> THEN match ELSE oneOf(Tail(texts), pos)
        IN first_of(Literal(Head(texts), pos))
      \* pp.Word(initial, body) after the white space at pos
      RECURSIVE word_end(_, _)
      word_end(body, p) ==
        IF p <= Len(content) /\ content[p] \in body THEN word_end(body, p + 1) ELSE p
      Word(initial, body, pos) ==
        LET upto(p, end) == Match(SubSeq(content, p, end - 1), end)
            at(p) ==
              IF p <= Len(content) /\ content[p] \in initial
              THEN upto(p, word_end(body, p + 1))
              ELSE NoMatch
        IN at(skip(pos))
      \* int(text) for decimal digits
      RECURSIVE int(_)
      int(text) ==
        IF text = <<>> THEN 0
        ELSE 10 * int(SubSeq(text, 1, Len(text) - 1)) + nums[text[Len(text)]]
      \* "0", or a word of digits that starts with another digit
      integer_literal(pos) ==
        LET made(word) == IF word.ok THEN Match(HTCInt(int(word.v)), word.pos) ELSE word
            zero(match) ==
              IF match.ok THEN match
              ELSE Word(DOMAIN nums \ {"0"}, DOMAIN nums, pos)
        IN made(zero(Literal(<<"0">>, pos)))
      attribute_name(pos) ==
        LET made(word) ==
              IF word.ok THEN Match(AttributeExpression(PyStr(word.v)), word.pos)
              ELSE word
        IN made(Word(alphas \cup {"_"}, alphas \cup DOMAIN nums \cup {"_"}, pos))
      RECURSIVE expression(_)
      RECURSIVE operands(_, _)
      RECURSIVE atom(_)
      RECURSIVE record_expression(_)
      RECURSIVE attribute_definition(_)
      RECURSIVE delimitedList(_, _, _)
      \* attribute_name "=" expression, as the token <<name, expression>>
      attribute_definition(pos) ==
        LET defined(name, value) ==
              IF value.ok THEN Match(<<name.v.x.s, value.v>>, value.pos) ELSE value
            assigned(name, sign) ==
              IF sign.ok THEN defined(name, expression(sign.pos)) ELSE sign
            named(name) ==
              IF name.ok THEN assigned(name, Literal(<<"=">>, name.pos)) ELSE name
        IN named(attribute_name(pos))
      \* pp.delimitedList(attribute_definition, delim) after the definitions
      \* parsed so far, where delim is ";" or pp.Empty(): the tokens of the
      \* definitions, no match when there is none
      delimitedList(delim, tokens, pos) ==
        LET end == IF tokens = <<>> THEN NoMatch ELSE Match(tokens, pos)
            more(definition) ==
              IF definition.ok
              THEN delimitedList(delim, Append(tokens, definition.v), definition.pos)
              ELSE end
            after(separator) ==
              IF separator.ok THEN more(attribute_definition(separator.pos)) ELSE end
        IN after(Literal(IF tokens = <<>> THEN <<>> ELSE delim, pos))
      \* "[" definitions separated by ";", an optional ";" and "]", or
      \* else definitions separated by nothing; a text that starts with "["
      \* starts no definition, so that the second alternative matches only
      \* where the first finds no "["
      record_expression(pos) ==
        LET made(tokens) ==
              IF tokens.ok THEN Match(from_grammar(tokens.v), tokens.pos) ELSE tokens
            closed(tokens, bracket) ==
              IF bracket.ok THEN Match(tokens.v, bracket.pos) ELSE bracket
            trailing(tokens, semicolon) ==
              closed(tokens, Literal(<<"]">>, IF semicolon.ok THEN semicolon.pos
                                              ELSE tokens.pos))
            optional(open, tokens) ==
              IF ~open.ok THEN tokens
              ELSE IF tokens.ok THEN trailing(tokens, Literal(<<";">>, tokens.pos))
              ELSE closed(Match(<<>>, open.pos), Literal(<<"]">>, open.pos))
            either(open) ==
              optional(open, delimitedList(IF open.ok THEN <<";">> ELSE <<>>, <<>>,
                                           IF open.ok THEN open.pos ELSE pos))
        IN made(either(Literal(<<"[">>, pos)))
      atom(pos) ==
        LET first_of(record, literal) ==
              IF record.ok THEN record
              ELSE IF literal.ok THEN literal
              ELSE attribute_name(pos)
        IN first_of(record_expression(pos), integer_literal(pos))
      \* an operand and OneOrMore(operator + operand), after the tokens parsed
      \* so far: the operand alone, or the chain
      operands(tokens, pos) ==
        LET end ==
              IF tokens = <<>> THEN NoMatch
              ELSE Match(IF Len(tokens) = 1 THEN tokens[1]
                         ELSE ArithmeticExpression(tokens), pos)
            more(operator, operand) ==
              IF operand.ok
              THEN operands(tokens \o (IF tokens = <<>> THEN <<operand.v>>
                                       ELSE <<PyStr(operator.v), operand.v>>), operand.pos)
              ELSE end
            after(operator) ==
              IF operator.ok THEN more(operator, atom(operator.pos)) ELSE end
        IN after(oneOf(IF tokens = <<>> THEN <<<<>>>>
                       ELSE <<Op.Eq.s, Op.Ne.s, Op.MetaEq.s, Op.Isnt.s, Op.Is.s, Op.MetaNe.s>>,
                       pos))
      expression(pos) == operands(<<>>, pos)
      whole(parsed) ==
        IF ~parsed.ok \/ skip(parsed.pos) # Len(content) + 1 THEN Raise("ParseException")
        ELSE parsed.v
  IN whole(expression(1))

(***************************************************************************)
(* The built-in functions.  A function takes the evaluated arguments of    *)
(* the call.                                                               *)
(***************************************************************************)
\* the text of a str written as a string of the model
chars ==
  [ Undefined |-> <<"<", "U", "n", "d", "e", "f", "i", "n", "e", "d", ">">>,
    Error |-> <<"<", "E", "r", "r", "o", "r", ">">>,
    HTCBool |-> <<"<", "H", "T", "C", "B", "o", "o", "l", ">", ":", " ">>,
    HTCStr |-> <<"<", "H", "T", "C", "S", "t", "r", ">", ":", " ">>,
    HTCList |-> <<"<", "H", "T", "C", "L", "i", "s", "t", ">", ":", " ">>,
    True |-> <<"T", "r", "u", "e">>,
    False |-> <<"F", "a", "l", "s", "e">> ]

RECURSIVE repr(_)
\* x.__repr__() for a primitive x: the f-string of HTCInt and of HTCFloat
\* formats self, which calls __repr__ again
repr(x) ==
  LET RECURSIVE listed(_)
      \* the texts of the elements, separated by commas
      listed(elements) ==
        LET joined(first, rest) ==
              IF IsRaise(first) THEN first
              ELSE IF IsRaise(rest) THEN rest
              ELSE IF Tail(elements) = <<>> THEN first
              ELSE PyStr(first.s \o <<",", " ">> \o rest.s)
        IN IF elements = <<>> THEN PyStr(<<>>)
           ELSE joined(repr(Head(elements)), listed(Tail(elements)))
      bracketed(text) ==
        IF IsRaise(text) THEN text
        ELSE PyStr(chars.HTCList \o <<"[">> \o text.s \o <<"]">>)
  IN CASE x.t = "Undefined" -> PyStr(chars.Undefined)
       [] x.t = "Error" -> PyStr(chars.Error)
       [] x.t = "Bool" -> PyStr(chars.HTCBool \o (IF x.b THEN chars.True ELSE chars.False))
       [] x.t = "Str" -> PyStr(chars.HTCStr \o x.s)
       [] x.t = "List" -> bracketed(listed(x.l))
       [] x.t \in {"Int", "Real"} -> Raise("RecursionError")

\* eval(expression)
eval(expression) ==
  IF expression.t \in PrimitiveTags
                      \cup {"Record", "Attr", "Arith", "Ternary", "Dot", "Subscript", "Function"}
  THEN expression
  ELSE IF expression.t = "str" THEN parse(expression.s)
  ELSE Raise("AttributeError")

\* ceiling(expression) after its first statement, result = eval(expression),
\* with isInteger and real as it calls them on the result, an Expression,
\* which their own eval gives back as it is; no Str of the model's calls
\* spells a number, so HTCFloat(result) in real raises ValueError for a Str
ceiling(result_) ==
  LET isInteger(res) == HTCBool(res.t = "Int")
      isReal(res) == HTCBool(res.t = "Real")
      real(res) ==
        IF truth(isReal(res)) THEN res
        ELSE IF truth(isInteger(res)) THEN HTCFloat(res.i, 1)
        ELSE Error
      ceil(res) ==
        IF res.t = "Real" THEN HTCInt(-((-res.n) \div res.d)) ELSE Error
  IN IF IsRaise(result_) THEN result_
     ELSE IF truth(isInteger(result_)) THEN result_
     ELSE ceil(real(result_))

RECURSIVE quantize(_, _)
\* quantize(a, b)
quantize(a, b) ==
  LET \* bool(x) of the if statement
      bool(x) ==
        CASE IsRaise(x) -> x
          [] x.t \in {"Undefined", "Error"} -> Raise("TypeError")
          [] x.t \in {"Bool", "pybool"} -> PyBool(x.b)
          [] IsPyInt(x) \/ IsPyFloat(x) -> PyBool(NumN(x) # 0)
          [] x.t \in {"Str", "str"} -> PyBool(x.s # <<>>)
          [] x.t \in {"List", "tuple"} -> PyBool(x.l # <<>>)
          [] x.t = "Record" -> PyBool(DOMAIN x.data # {})
          [] OTHER -> PyBool(TRUE)
      RECURSIVE loop(_)
      \* the for loop from the i-th element of b on
      loop(i) ==
        LET tested(res) ==
              IF res = Raise("TypeError") THEN Error
              ELSE IF IsRaise(res) THEN res
              ELSE IF res.b THEN b.l[i]
              ELSE loop(i + 1)
        IN IF i > Len(b.l)
           THEN IF b.l = <<>> THEN Raise("UnboundLocalError")
                ELSE quantize(a, b.l[Len(b.l)])
           ELSE tested(bool(operator_compare("ge", b.l[i], a)))
      \* HTCFloat(x)
      float(x) ==
        CASE IsRaise(x) -> x
          [] IsPyInt(x) \/ IsPyFloat(x) -> HTCFloat(NumN(x), NumD(x))
          [] x.t \in {"Str", "str"} -> Raise("ValueError")
          [] OTHER -> Raise("TypeError")
      multiple(integer) ==
        IF IsRaise(integer) THEN integer ELSE operator_arith("mul", integer, b)
      \* ceiling(quotient) * b; eval gives the HTCFloat quotient back
      quotient(res) ==
        IF res = Raise("TypeError") THEN Error
        ELSE IF IsRaise(res) THEN res
        ELSE multiple(ceiling(res))
  IN IF b.t = "List" THEN loop(1)
     ELSE quotient(float(operator_arith("truediv", a, b)))

\* getattr(_functions, name)(*args): the functions of the module the model
\* calls, TypeError for a call with another number of arguments than the
\* function has parameters, AttributeError for a name the module lacks
functions(name, args) ==
  LET parameters ==
        [eval |-> 1, unparse |-> 1, isUndefined |-> 1, isInteger |-> 1,
         ceiling |-> 1, quantize |-> 2]
      \* eval, isUndefined, isInteger and ceiling, given eval(expression)
      evaluated(res) ==
        IF IsRaise(res) \/ name = "eval" THEN res
        ELSE IF name = "ceiling" THEN ceiling(res)
        ELSE HTCBool(res.t = (IF name = "isUndefined" THEN "Undefined" ELSE "Int"))
  IN IF name \notin DOMAIN parameters THEN Raise("AttributeError")
     ELSE IF Len(args) # parameters[name] THEN Raise("TypeError")
     ELSE CASE name = "unparse" -> repr(args[1])
            [] name = "quantize" -> quantize(args[1], args[2])
            [] OTHER -> evaluated(eval(args[1]))

(***************************************************************************)
(* The evaluator.  depth counts the _evaluate frames Python may still      *)
(* open before it raises RecursionError.                                   *)
(***************************************************************************)
DOT == PyStr(<<".">>)
TARGET == PyStr(<<"t", "a", "r", "g", "e", "t">>)
MY == PyStr(<<"m", "y">>)

\* find_scope, local to AttributeExpression._evaluate
find_scope(current_key, classad) ==
  IF ~sized(current_key) THEN Raise("TypeError")
  ELSE IF len(current_key) > 0 THEN getitem(classad, current_key)
  ELSE classad

\* the while loop of AttributeExpression._evaluate: the value found and the
\* key of the scope it was found in, or the exception that leaves the loop
RECURSIVE scope_walk(_, _, _, _, _, _, _)
scope_walk(first, expression, key, target, the_key, selected_classad, context) ==
  LET value == getitem(context, expression)
  IN IF IsRaise(value) THEN value
     ELSE IF value # Undefined THEN [value |-> value, the_key |-> the_key]
     ELSE IF ~sized(the_key) THEN Raise("TypeError")
     ELSE IF len(the_key) = 0
     THEN IF /\ target # None
             /\ first \notin {DOT, TARGET, MY}
             /\ truth(py_ne(selected_classad, target))
          THEN LET restart == find_scope(key, target)
               IN IF IsRaise(restart) THEN restart
                  ELSE scope_walk(first, expression, key, target,
                                  key, target, restart)
          ELSE [value |-> Undefined, the_key |-> the_key]
     ELSE LET up == find_scope(scope_up(the_key), selected_classad)
          IN IF IsRaise(up) THEN up
             ELSE scope_walk(first, expression, key, target,
                             scope_up(the_key), selected_classad, up)

\* lines 228-251 of AttributeExpression._evaluate: the scope the reference
\* names, as the arguments of the walk, or the value returned at once
attribute_scope(self, key, my, target) ==
  LET first == index(self.x, 0)
      dotted == first = DOT
      the_key == IF dotted THEN scope_up(index(self.x, 1)) ELSE key
      selected_classad == IF first = TARGET THEN target ELSE my
      expression == IF dotted THEN last(index(self.x, 1))
                    ELSE IF first \in {TARGET, MY} THEN index(self.x, 1)
                    ELSE self.x
      context == IF the_key = None /\ selected_classad # None
                 THEN selected_classad
                 ELSE find_scope(the_key, selected_classad)
  IN IF first = TARGET /\ target = None THEN [return |-> Undefined]
     ELSE IF first = MY /\ my = None THEN [return |-> Undefined]
     ELSE IF context = Raise("TypeError") THEN [return |-> Error]
     ELSE IF IsRaise(context) THEN [return |-> context]
     ELSE [first |-> first, expression |-> expression, the_key |-> the_key,
           selected_classad |-> selected_classad, context |-> context]

\* the loop of DotExpression._evaluate
RECURSIVE dot_loop(_, _, _, _, _)
dot_loop(scope, checked, to_check, key, my) ==
  IF to_check.t # "Attr" THEN to_check
  ELSE IF to_check.x \in checked THEN Undefined
  ELSE LET found == getitem(scope, to_check.x)
           new_scope == getitem(my, key)
       IN IF IsRaise(found) THEN found
          ELSE IF found # Undefined
          THEN dot_loop(scope, checked \cup {to_check.x}, found, key, my)
          ELSE IF new_scope = Raise("TypeError") THEN Undefined
          ELSE IF IsRaise(new_scope) THEN new_scope
          ELSE IF truth(py_ne(new_scope, scope))
          THEN dot_loop(new_scope, checked, to_check, key, my)
          ELSE Undefined

DotExpression_evaluate(self, key, my, target) ==
  dot_loop(index(self.x, 0), {}, index(self.x, 1), key, my)

RECURSIVE evaluate_(_, _, _, _, _)
RECURSIVE arithmetic_loop(_, _, _, _, _, _, _)

\* the for loop of ArithmeticExpression._evaluate from position on
arithmetic_loop(self, res, position, key, my, target, depth) ==
  IF position >= len(self.x) - 1 THEN res
  ELSE LET second == evaluate_(index(self.x, position + 2), key, my, target, depth)
       IN IF IsRaise(second) THEN second
          ELSE LET next == calculate(res, second, index(self.x, position + 1))
               IN IF IsRaise(next) THEN next
                  ELSE arithmetic_loop(self, next, position + 2, key, my, target, depth)

ArithmeticExpression_evaluate(self, key, my, target, depth) ==
  LET res == evaluate_(index(self.x, 0), key, my, target, depth)
  IN IF IsRaise(res) THEN res
     ELSE arithmetic_loop(self, res, 0, key, my, target, depth)

TernaryExpression_evaluate(self, key, my, target, depth) ==
  LET predicate == index(self.x, 0)
      if_true == index(self.x, 1)
      if_false == index(self.x, 2)
      res == evaluate_(predicate, key, my, target, depth)
  IN IF IsRaise(res) THEN res
     ELSE IF if_true = None
     THEN IF res = Undefined THEN evaluate_(if_false, key, my, target, depth)
          ELSE res
     ELSE IF res = Undefined THEN Undefined
     ELSE IF res.t = "Bool"
     THEN IF res.b THEN evaluate_(if_true, key, my, target, depth)
          ELSE evaluate_(if_false, key, my, target, depth)
     ELSE Error

RECURSIVE as_key(_)
\* an HTCStr, HTCList or ClassAd used as the key of a record: a str or the
\* tokens that iterating over it gives (the names of a ClassAd; the model
\* keeps no definition order, which a record of one name does not need)
as_key(item) ==
  CASE item.t = "Str" -> PyStr(item.s)
    [] item.t = "List" -> PyTuple([i \in 1..Len(item.l) |-> as_key(item.l[i])])
    [] item.t = "Record" ->
         LET names == CHOOSE q \in [1..Cardinality(DOMAIN item.data) -> DOMAIN item.data] :
                        \A n \in DOMAIN item.data : \E i \in DOMAIN q : q[i] = n
         IN PyTuple([i \in DOMAIN names |-> PyStr(names[i])])
    [] OTHER -> item

\* operand[item] as SubscriptableExpression._evaluate writes it
operand_getitem(operand, item) ==
  CASE operand.t \in {"List", "tuple", "Str", "str"} ->
         IF ~IsPyInt(item) THEN Raise("TypeError")
         ELSE LET x == IF operand.t \in {"List", "tuple"} THEN PyTuple(operand.l)
                       ELSE PyStr(operand.s)
                  i == IntVal(item)
              IN IF i >= len(x) \/ i < -len(x) THEN Raise("IndexError")
                 ELSE index(x, IF i < 0 THEN i + len(x) ELSE i)
    [] operand.t = "Record" -> ClassAd_getitem(operand, as_key(item))
    [] OTHER -> Raise("TypeError")

SubscriptableExpression_evaluate(self, key, my, target, depth) ==
  LET operand == evaluate_(index(self.x, 0), key, my, target, depth)
      item == evaluate_(index(self.x, 1), key, my, target, depth)
  IN IF IsRaise(operand) THEN operand
     ELSE IF IsRaise(item) THEN item
     ELSE LET element == operand_getitem(operand, item)
          IN IF IsRaise(element) THEN element
             ELSE evaluate_(element, key, my, target, depth)

AttributeExpression_evaluate(self, key, my, target, depth) ==
  LET scope == attribute_scope(self, key, my, target)
  IN IF "return" \in DOMAIN scope THEN scope.return
     ELSE LET found == scope_walk(scope.first, scope.expression, key, target,
                                  scope.the_key, scope.selected_classad,
                                  scope.context)
          IN IF "value" \notin DOMAIN found THEN found
             ELSE IF found.value.t = "Attr"
             THEN evaluate_(found.value, found.the_key, my, target, depth)
             ELSE found.value

ClassAd_evaluate(self, key, my, target, depth) ==
  IF key = None THEN self
  ELSE LET expression == ClassAd_getitem(self, key)
       IN IF IsRaise(expression) THEN expression
          ELSE IF expression.t = "dict" THEN Raise("AttributeError")
          ELSE evaluate_(expression, scope_up(key), self, target, depth)

FunctionExpression_evaluate(self, key, my, target, depth) ==
  LET RECURSIVE call_with(_)
      \* the for loop over the arguments, then the call
      call_with(arguments) ==
        LET appended(res) ==
              IF IsRaise(res) THEN res ELSE call_with(Append(arguments, res))
        IN IF Len(arguments) = len(self.x) THEN functions(self.name, arguments)
           ELSE appended(evaluate_(index(self.x, Len(arguments)), key, my, target, depth))
  IN call_with(<<>>)

\* expression._evaluate(key=key, my=my, target=target), entered with depth
\* frames left
evaluate_(expression, key, my, target, depth) ==
  IF depth = 0 THEN Raise("RecursionError")
  ELSE CASE expression.t \in PrimitiveTags -> expression
         [] expression.t = "Record" ->
              ClassAd_evaluate(expression, key, my, target, depth - 1)
         [] expression.t = "Attr" ->
              AttributeExpression_evaluate(expression, key, my, target, depth - 1)
         [] expression.t = "Arith" ->
              ArithmeticExpression_evaluate(expression, key, my, target, depth - 1)
         [] expression.t = "Ternary" ->
              TernaryExpression_evaluate(expression, key, my, target, depth - 1)
         [] expression.t = "Dot" -> DotExpression_evaluate(expression, key, my, target)
         [] expression.t = "Subscript" ->
              SubscriptableExpression_evaluate(expression, key, my, target, depth - 1)
         [] expression.t = "Function" ->
              FunctionExpression_evaluate(expression, key, my, target, depth - 1)
         [] OTHER -> Raise("AttributeError")

\* Expression.evaluate and PrimitiveExpression.evaluate
evaluate(expression, key, my, target) ==
  IF expression.t \in PrimitiveTags THEN expression
  ELSE evaluate_(expression, IF key.t = "str" THEN PyTuple(split(key.s, <<>>)) ELSE key,
                 my, target, RecursionLimit)

(***************************************************************************)
(* The inputs of the model.                                                *)
(***************************************************************************)
na == <<"a">>
nb == <<"b">>
nab == <<"a", "b">>

\* the attributes the model sets, <<path, key>> for ad[path][key] = value
Attributes ==
  {<<<<>>, na>>, <<<<>>, nb>>, <<<<>>, nab>>, <<<<nb>>, na>>,
   <<<<>>, <<"A">>>>, <<<<>>, <<"I", "s">>>>}

\* the attributes the model deletes, <<path, key>> for del ad[path][key]
Deleted == {<<<<>>, na>>, <<<<>>, <<"A">>>>, <<<<>>, nb>>, <<<<nb>>, na>>}

\* expressions stored as attribute definitions
Definitions ==
  { HTCInt(1), HTCInt(2), Undefined,
    AttributeExpression(PyStr(na)), AttributeExpression(PyStr(nb)),
    ArithmeticExpression(<<HTCInt(1), Op.Add, HTCInt(1)>>),
    ClassAd(<<>>) }

\* the peer record of a match
Targets ==
  { None, ClassAd((na :> HTCInt(7)) @@ (nb :> ClassAd(na :> HTCInt(8)))) }

\* keys given to evaluate: the record an expression is evaluated in, or
\* no key at all
Keys == {None, PyTuple(<<>>), PyTuple(<<PyStr(nb)>>)}

\* keys of the attributes evaluate is asked for
AttributeKeys ==
  {PyStr(na), PyStr(nb), PyTuple(<<PyStr(nb), PyStr(na)>>)}

RECURSIVE size(_)
\* the attributes of a record, those of its nested records included
size(classad) ==
  LET RECURSIVE sum(_)
      sum(keys) ==
        IF keys = {} THEN 0
        ELSE LET k == CHOOSE k \in keys : TRUE
             IN 1 + (IF classad.data[k].t = "Record" THEN size(classad.data[k]) ELSE 0)
                + sum(keys \ {k})
  IN sum(DOMAIN classad.data)

RECURSIVE setitem_at(_, _, _, _)
\* classad[path][key] = value
setitem_at(classad, path, key, value) ==
  IF path = <<>> THEN ClassAd_setitem(classad, key, value)
  ELSE LET inner == setitem_at(classad.data[Head(path)], Tail(path), key, value)
       IN IF IsRaise(inner) THEN inner
          ELSE ClassAd([classad.data EXCEPT ![Head(path)] = inner])

RECURSIVE delitem_at(_, _, _)
\* del classad[path][key]
delitem_at(classad, path, key) ==
  IF path = <<>> THEN ClassAd_delitem(classad, key)
  ELSE ClassAd([classad.data EXCEPT
                  ![Head(path)] = delitem_at(classad.data[Head(path)], Tail(path), key)])

RECURSIVE record_at(_, _)
\* the nested record at path, None when the path does not lead to a record
record_at(classad, path) ==
  IF path = <<>> THEN classad
  ELSE IF Head(path) \in DOMAIN classad.data /\ classad.data[Head(path)].t = "Record"
  THEN record_at(classad.data[Head(path)], Tail(path))
  ELSE None

(***************************************************************************)
(* The specification: a record is built attribute by attribute and         *)
(* evaluated, alone or against a peer.                                     *)
(***************************************************************************)
Init ==
  /\ ad = ClassAd(<<>>)
  /\ call = [name |-> "ClassAd"]
  /\ result = None

\* ad[path][key] = value
SetItem(path, key, value) ==
  /\ record_at(ad, path) # None
  /\ size(ad) < MaxAttrs \/ casefold(key) \in DOMAIN record_at(ad, path).data
  /\ LET after == setitem_at(ad, path, PyStr(key), value)
     IN /\ ad' = IF IsRaise(after) THEN ad ELSE after
        /\ result' = IF IsRaise(after) THEN after ELSE None
  /\ call' = [name |-> "setitem", path |-> path, key |-> key, value |-> value]

\* del ad[path][key]
DelItem(path, key) ==
  /\ record_at(ad, path) # None
  /\ ad' = delitem_at(ad, path, PyStr(key))
  /\ result' = None
  /\ call' = [name |-> "delitem", path |-> path, key |-> key]

\* an evaluation that stores the value it finds in place of the definition
Evaluate_storing(key, target) ==
  /\ call' = [name |-> "ClassAd.evaluate", key |-> key, target |-> target]
  /\ result' = evaluate(ad, key, ad, target)
  /\ ad' = IF key.t = "str" /\ key.s \in DOMAIN ad.data /\ result'.t \in PrimitiveTags
           THEN ClassAd([ad.data EXCEPT ![key.s] = result'])
           ELSE ad

\* ad.evaluate(key=key, my=ad, target=target)
Evaluate(key, target) ==
  /\ call' = [name |-> "ClassAd.evaluate", key |-> key, target |-> target]
  /\ result' = evaluate(ad, key, ad, target)
  /\ UNCHANGED ad

\* expression.evaluate(key=key, my=ad, target=target)
EvaluateExpression(expression, key, target) ==
  /\ call' = [name |-> "Expression.evaluate", expression |-> expression,
              key |-> key, target |-> target]
  /\ result' = evaluate(expression, key, ad, target)
  /\ UNCHANGED ad

\* the attribute references of the model
References ==
  { AttributeExpression(PyStr(na)),
    AttributeExpression(PyTuple(<<DOT, PyStr(na)>>)),
    AttributeExpression(PyTuple(<<DOT, PyStr(nab)>>)),
    AttributeExpression(PyTuple(<<TARGET, PyStr(na)>>)),
    AttributeExpression(PyTuple(<<MY, PyStr(na)>>)) }

\* the expressions evaluated against the record: references, a sum over a
\* reference and the selection of an attribute of the record
Expressions ==
  References
    \cup { ArithmeticExpression(<<AttributeExpression(PyStr(na)), Op.Add, HTCInt(1)>>),
           DotExpression(<<ad, AttributeExpression(PyStr(na))>>) }

Next ==
  \/ \E attribute \in Attributes, value \in Definitions :
       SetItem(attribute[1], attribute[2], value)
  \/ \E attribute \in Deleted : DelItem(attribute[1], attribute[2])
  \/ \E key \in AttributeKeys, target \in Targets : Evaluate(key, target)
  \/ \E expression \in Expressions, key \in Keys, target \in Targets :
       EvaluateExpression(expression, key, target)

Spec == Init /\ [][Next]_vars

(***************************************************************************)
(* The operators: one binary expression over two literal operands is       *)
(* evaluated with the defaults of evaluate().                              *)
(***************************************************************************)
\* the largest Int among the operands
MaxInt == 1

Values ==
  {HTCBool(FALSE), HTCBool(TRUE), Undefined, Error}
    \cup {HTCInt(i) : i \in 0..MaxInt}
    \cup {HTCFloat(1, 1), HTCFloat(0, 1)}
    \cup {HTCStr(<<"a">>), HTCStr(<<"A">>), HTCStr(<<"b">>)}
    \cup {HTCList(<<HTCInt(1)>>), ClassAd(<<>>)}

Operators ==
  {Op.Add, Op.Sub, Op.Mul, Op.Div, Op.Lt, Op.Le, Op.Ge, Op.Gt,
   Op.Eq, Op.Ne, Op.And, Op.Or, Op.Is, Op.Isnt, Op.MetaEq, Op.MetaNe}

NextOperators ==
  \E first \in Values, operand \in Operators, second \in Values :
    EvaluateExpression(ArithmeticExpression(<<first, operand, second>>), None, None)

SpecOperators == Init /\ [][NextOperators]_vars

(***************************************************************************)
(* Ternary and subscript expressions and list literals: each step          *)
(* evaluates one of them, built from literals, with the defaults of        *)
(* evaluate().                                                             *)
(***************************************************************************)
\* the longest list that is subscripted
MaxLen == 3

\* the i-th element of the lists: the literals of { 10, 17*2, 30 }
element(i) ==
  IF i = 2 THEN ArithmeticExpression(<<HTCInt(17), Op.Mul, HTCInt(2)>>)
  ELSE HTCInt(10 * i)

Lists == {HTCList([i \in 1..n |-> element(i)]) : n \in 0..MaxLen}

Indices == Values \cup {HTCInt(i) : i \in (-1)..MaxLen}

\* a subscript that raises IndexError when it is evaluated
OutOfRange == SubscriptableExpression(<<HTCList(<<>>), HTCInt(0)>>)

\* the conditions: every value, and comparisons of two Ints and of two Reals
Conditions ==
  Values \cup {ArithmeticExpression(<<HTCInt(0), Op.Lt, HTCInt(1)>>),
               ArithmeticExpression(<<HTCFloat(0, 1), Op.Lt, HTCFloat(1, 1)>>)}

Branches ==
  {HTCInt(1), HTCStr(<<"a">>),
   ArithmeticExpression(<<HTCInt(1), Op.Add, HTCInt(1)>>), OutOfRange}

NextCompound ==
  \/ \E predicate \in Conditions, if_true \in Branches \cup {None}, if_false \in Branches :
       EvaluateExpression(TernaryExpression(<<predicate, if_true, if_false>>), None, None)
  \/ \E operand \in Lists, item \in Indices :
       EvaluateExpression(SubscriptableExpression(<<operand, item>>), None, None)
  \/ \E operand \in Lists : EvaluateExpression(operand, None, None)

SpecCompound == Init /\ [][NextCompound]_vars

(***************************************************************************)
(* Equality of records and of operator chains: the step builds two         *)
(* records from their attribute definitions, takes two chains, or parses   *)
(* two texts, and compares them with ==.                                   *)
(***************************************************************************)
\* the most attribute definitions a compared record is built from
MaxDefs == 2

\* the attribute definitions the compared records are built from
DefinitionLists ==
  LET tokens == {na, <<"A">>, nb} \X {HTCInt(1), HTCFloat(1, 1), HTCInt(2)}
  IN UNION {[1..n -> tokens] : n \in 0..MaxDefs}

\* the compared chains: two or three operands joined by +, is or =?=
Chains ==
  LET operands == {HTCInt(1), HTCInt(2), AttributeExpression(PyStr(na))}
  IN {ArithmeticExpression(<<x, o, y>>) :
        x \in {HTCInt(1)}, o \in {Op.Add, Op.Is, Op.MetaEq}, y \in operands}
       \cup {ArithmeticExpression(<<HTCInt(1), Op.Add, y, o, z>>) :
               y \in operands, o \in {Op.Add, Op.Sub}, z \in operands}

\* the attribute definitions written as texts: the sequences of up to
\* MaxDefs definitions name = expression, as <<stream, record>>, the
\* definitions one on a line and the definitions separated by ; in brackets
DefinitionTexts ==
  LET definitions == {n \o <<" ", "=", " ">> \o e :
                        n \in {na, nb, <<"i", "s", "a">>}, e \in {<<"1">>, <<"2">>, nb}}
      RECURSIVE join(_, _)
      join(separator, written) ==
        IF Len(written) = 0 THEN <<>>
        ELSE IF Len(written) = 1 THEN written[1]
        ELSE written[1] \o separator \o join(separator, Tail(written))
  IN {<<join(<<"\n">>, written), <<"[">> \o join(<<";", " ">>, written) \o <<"]">>>> :
        written \in UNION {[1..n -> definitions] : n \in 0..MaxDefs}}

\* the two operands of a comparison are drawn before it is made
InitEquality ==
  /\ ad = ClassAd(<<>>)
  /\ result = None
  /\ call \in [name : {"records"}, left : DefinitionLists, right : DefinitionLists]
               \cup [name : {"chains"}, left : Chains, right : Chains]
               \cup {[name |-> "texts", left |-> text[1], right |-> text[2]] :
                        text \in DefinitionTexts}

\* from_grammar(left) == from_grammar(right)
EqualRecords ==
  /\ call.name = "records"
  /\ call' = [call EXCEPT !.name = "ClassAd.__eq__"]
  /\ result' = py_eq(from_grammar(call.left), from_grammar(call.right))
  /\ UNCHANGED ad

\* left == right
EqualExpressions ==
  /\ call.name = "chains"
  /\ call' = [call EXCEPT !.name = "ArithmeticExpression.__eq__"]
  /\ result' = py_eq(call.left, call.right)
  /\ UNCHANGED ad

\* parse(left) == parse(right), for the stream and the record form of the
\* same definitions
EqualForms ==
  LET compared(old, new) ==
        IF IsRaise(old) THEN old
        ELSE IF IsRaise(new) THEN new
        ELSE py_eq(old, new)
  IN /\ call.name = "texts"
     /\ call' = [call EXCEPT !.name = "parse"]
     /\ result' = compared(parse(call.left), parse(call.right))
     /\ UNCHANGED ad

NextEquality == EqualRecords \/ EqualExpressions \/ EqualForms

SpecEquality == InitEquality /\ [][NextEquality]_vars

(***************************************************************************)
(* Function calls: the call is drawn, then evaluated with the defaults of  *)
(* evaluate().                                                             *)
(***************************************************************************)
\* the most arguments of a call
MaxArgs == 2

\* the arguments of the calls: literals
Arguments ==
  { HTCInt(0), HTCInt(2), HTCInt(3), HTCFloat(3, 2), HTCFloat(2, 1),
    HTCStr(na), Undefined, HTCBool(TRUE),
    HTCList(<<>>), HTCList(<<HTCInt(1), HTCInt(2)>>), HTCList(<<HTCStr(nb)>>),
    HTCList(<<HTCInt(4), HTCStr(<<"A">>)>>), HTCList(<<HTCInt(1), HTCStr(<<"A">>)>>),
    HTCList(<<HTCInt(1), HTCFloat(1, 2)>>) }

\* the calls: functions of the module and a name it lacks, with up to
\* MaxArgs arguments, and eval of the texts of three expressions
Calls ==
  { FunctionExpression(name, args) :
      name \in {"eval", "unparse", "isUndefined", "isInteger", "ceiling", "quantize", "foo"},
      args \in UNION {[1..n -> Arguments] : n \in 0..MaxArgs} }
    \cup { FunctionExpression("eval", <<HTCStr(text)>>) :
             text \in {<<"1">>, nb, <<"1", " ", "i", "s", " ", "2">>} }

InitFunctions ==
  /\ ad = ClassAd(<<>>)
  /\ result = None
  /\ call \in [name : {"FunctionExpression"}, expression : Calls]

\* call.expression.evaluate()
NextFunctions ==
  /\ call.name = "FunctionExpression"
  /\ EvaluateExpression(call.expression, None, None)

SpecFunctions == InitFunctions /\ [][NextFunctions]_vars

(***************************************************************************)
(* The calls the properties are about.                                     *)
(***************************************************************************)
\* the last call evaluated the binary expression lhs operand rhs
IsBinary ==
  /\ call.name = "Expression.evaluate"
  /\ call.expression.t = "Arith"
  /\ Len(call.expression.x.l) = 3
lhs == call.expression.x.l[1]
callOperator == call.expression.x.l[2]
rhs == call.expression.x.l[3]

\* the last call evaluated expression under the path of a record of ad
IsEvaluated(expression) ==
  /\ call.name = "Expression.evaluate"
  /\ call.expression = expression
  /\ call.key # None
  /\ record_at(ad, [i \in 1..Len(call.key.l) |-> call.key.l[i].s]) # None
\* the path the last call evaluated under
callPath == [i \in 1..Len(call.key.l) |-> call.key.l[i].s]

\* the record at the first k names of p defines n
defines(k, p, n) == n \in DOMAIN record_at(ad, SubSeq(p, 1, k)).data
\* some record along p defines n
isDefined(p, n) == \E k \in 0..Len(p) : defines(k, p, n)
\* the definition of n in the record at the longest prefix of p that has one
nearest(p, n) ==
  LET k == CHOOSE k \in 0..Len(p) :
             defines(k, p, n) /\ \A j \in (k + 1)..Len(p) : ~defines(j, p, n)
  IN record_at(ad, SubSeq(p, 1, k)).data[n]

IsLiteral(expression) == expression.t \in PrimitiveTags

(***************************************************************************)
(* The scope walk.                                                         *)
(***************************************************************************)
\* C1: an unqualified reference to n evaluated under the path p of my, with
\* no target, resolves to the definition of n in the record at the longest
\* prefix of p that defines n (a literal definition is the result), and to
\* Undefined when no prefix defines n.
C1_NearestDefinitionWins ==
  (IsEvaluated(AttributeExpression(PyStr(na))) /\ call.target = None)
    => IF isDefined(callPath, na)
       THEN IsLiteral(nearest(callPath, na)) => result = nearest(callPath, na)
       ELSE result = Undefined

\* C2: a reference to an attribute evaluates to the value of the attribute's
\* stored definition, whatever kind of expression that is: with a = 1 + 1 the
\* reference a gives 2 and a + 1 gives 3.
C2_LazyLookup ==
  LET root == PyTuple(<<>>)
      sum == ArithmeticExpression(<<HTCInt(1), Op.Add, HTCInt(1)>>)
  IN (/\ call.name = "Expression.evaluate"
      /\ call.key = root
      /\ call.target = None
      /\ na \in DOMAIN ad.data)
       => /\ (/\ call.expression = AttributeExpression(PyStr(na))
              /\ ad.data[na].t \in PrimitiveTags \cup {"Arith"})
               => result = evaluate(ad.data[na], root, ad, None)
          /\ (/\ call.expression
                   = ArithmeticExpression(<<AttributeExpression(PyStr(na)), Op.Add, HTCInt(1)>>)
              /\ ad.data[na] = sum)
               => result = HTCInt(3)

\* the reference chain of a revisits a (record, name) pair of ad: a is
\* defined as a, or a as b and b as a
IsCycle ==
  /\ na \in DOMAIN ad.data
  /\ \/ ad.data[na] = AttributeExpression(PyStr(na))
     \/ /\ nb \in DOMAIN ad.data
        /\ ad.data[na] = AttributeExpression(PyStr(nb))
        /\ ad.data[nb] = AttributeExpression(PyStr(na))

\* C3: evaluating an attribute whose reference chain is a cycle yields
\* Undefined, neither Error nor an exception, when the attribute is selected
\* from the record literal and when it is asked for by evaluate(key="a").
C3_CycleIsUndefined ==
  IsCycle
    => /\ (/\ call.name = "Expression.evaluate"
           /\ call.expression = DotExpression(<<ad, AttributeExpression(PyStr(na))>>))
            => result = Undefined
       /\ (call.name = "ClassAd.evaluate" /\ call.key = PyStr(na))
            => result = Undefined

\* C4: when no record along p in my defines n and there is a target, the
\* walk restarts at the root of target: the result is target's root-level
\* definition of n, or Undefined when target has none, from nested records
\* of my as from its root.
C4_FallOverToTargetRoot ==
  (/\ IsEvaluated(AttributeExpression(PyStr(na)))
   /\ call.target # None
   /\ ~isDefined(callPath, na))
    => result = IF na \in DOMAIN call.target.data
                THEN call.target.data[na]
                ELSE Undefined

\* C5: TARGET.n evaluated under any path p resolves n at the root of target
\* and MY.n at the root of my, independent of p; the result is Undefined when
\* the named record is absent or does not define n.
C5_ScopedReferences ==
  /\ IsEvaluated(AttributeExpression(PyTuple(<<TARGET, PyStr(na)>>)))
       => result = IF call.target # None /\ na \in DOMAIN call.target.data
                   THEN call.target.data[na]
                   ELSE Undefined
  /\ IsEvaluated(AttributeExpression(PyTuple(<<MY, PyStr(na)>>)))
       => IF na \in DOMAIN ad.data
          THEN IsLiteral(ad.data[na]) => result = ad.data[na]
          ELSE result = Undefined

\* C6: .name, for a name of any length and under any path p, resolves name
\* at the root of my: it is the root's definition of name whatever the nested
\* records define, and Undefined when the root does not define it.
C6_AbsoluteReferences ==
  \A n \in {na, nab} :
    IsEvaluated(AttributeExpression(PyTuple(<<DOT, PyStr(n)>>)))
      => IF n \in DOMAIN ad.data
         THEN IsLiteral(ad.data[n]) => result = ad.data[n]
         ELSE call.target = None => result = Undefined

(***************************************************************************)
(* The three-valued operators.                                             *)
(***************************************************************************)
Lattice == {HTCBool(FALSE), HTCBool(TRUE), Undefined, Error}

\* the table of && over false, true, Undefined and Error
AndTable(l, r) ==
  CASE l = HTCBool(FALSE) -> HTCBool(FALSE)
    [] l = HTCBool(TRUE) -> r
    [] l = Undefined ->
         IF r = HTCBool(FALSE) THEN HTCBool(FALSE)
         ELSE IF r = Error THEN Error
         ELSE Undefined
    [] l = Error -> Error

\* the table of ||, the dual of &&
OrTable(l, r) ==
  CASE l = HTCBool(TRUE) -> HTCBool(TRUE)
    [] l = HTCBool(FALSE) -> r
    [] l = Undefined ->
         IF r = HTCBool(TRUE) THEN HTCBool(TRUE)
         ELSE IF r = Error THEN Error
         ELSE Undefined
    [] l = Error -> Error

\* C7: over false, true, Undefined and Error, lhs && rhs is the 4x4 table of
\* && and lhs || rhs is its dual.
C7_LogicalTruthTables ==
  (IsBinary /\ lhs \in Lattice /\ rhs \in Lattice)
    => /\ callOperator = Op.And => result = AndTable(lhs, rhs)
       /\ callOperator = Op.Or => result = OrTable(lhs, rhs)

\* the cells of the two tables that the body of Undefined.__and__ and
\* Undefined.__or__ decides: Undefined && false and Undefined || Error
C7_Witness ==
  /\ IsBinary
  /\ lhs = Undefined
  /\ \/ callOperator = Op.And /\ rhs = HTCBool(FALSE) /\ result = HTCBool(FALSE)
     \/ callOperator = Op.Or /\ rhs = Error /\ result = Error

NonBool == {"Int", "Real", "Str", "List", "Record"}

\* C8: && and || give Error whenever an operand is an Int, Real, String,
\* List or Record, unless a false left operand of && or a true left operand
\* of || already fixes the result.
C8_NonBoolOperandIsError ==
  (/\ IsBinary
   /\ callOperator \in {Op.And, Op.Or}
   /\ lhs.t \in NonBool \/ rhs.t \in NonBool
   /\ ~(callOperator = Op.And /\ lhs = HTCBool(FALSE))
   /\ ~(callOperator = Op.Or /\ lhs = HTCBool(TRUE)))
    => result = Error

\* C9: == and != with an Error operand give Error; with an Undefined operand
\* and no Error operand they give Undefined, whatever the other operand is,
\* a List or a Record included.
C9_EqualityPropagation ==
  (IsBinary /\ callOperator \in {Op.Eq, Op.Ne})
    => /\ (lhs = Error \/ rhs = Error) => result = Error
       /\ (lhs # Error /\ rhs # Error /\ (lhs = Undefined \/ rhs = Undefined))
            => result = Undefined

Numeric == {"Int", "Real"}

\* C10: == and != return a Bool, Undefined or Error and nothing else; two
\* numbers compare by value, two Strings without regard to case, two Bools by
\* value, any other pair of defined values gives Error, and != is the
\* negation of == whenever == is a Bool.
C10_EqualityIsThreeValued ==
  (IsBinary /\ callOperator \in {Op.Eq, Op.Ne})
    => LET equal ==
             CASE lhs.t \in Numeric /\ rhs.t \in Numeric -> HTCBool(NumEq(lhs, rhs))
               [] lhs.t = "Str" /\ rhs.t = "Str" ->
                    HTCBool(lower(lhs.s) = lower(rhs.s))
               [] lhs.t = "Bool" /\ rhs.t = "Bool" -> HTCBool(lhs.b = rhs.b)
               [] OTHER -> Error
       IN /\ result \in Lattice
          /\ (lhs.t \notin {"Undefined", "Error"} /\ rhs.t \notin {"Undefined", "Error"})
               => result = IF callOperator = Op.Eq THEN equal ELSE negate_htc_eq(equal)

(***************************************************************************)
(* Meta-equality.                                                          *)
(***************************************************************************)
\* a host bool read as the Bool of the same truth value
AsBool(v) == IF v.t = "pybool" THEN HTCBool(v.b) ELSE v

\* C11: is and =?= give true exactly when the two operands have the same
\* variant and the same value, Strings compared with regard to case, and
\* false for every other pair: 1 is 1.0, an Int against a Bool, anything
\* against Undefined or Error.
C11_MetaEqualityIsIdentity ==
  (IsBinary /\ callOperator \in {Op.Is, Op.MetaEq})
    => AsBool(result) = HTCBool(lhs = rhs)

\* C12: isnt and =!= give a Bool, the negation of what is gives for the same
\* operands, never Undefined or Error; x isnt x is false for every value x.
C12_IsntNegatesIs ==
  (IsBinary /\ callOperator \in {Op.Isnt, Op.MetaNe})
    => /\ AsBool(result) \in {HTCBool(FALSE), HTCBool(TRUE)}
       /\ truth(result) = ~truth(calculate(lhs, rhs, Op.Is))
       /\ lhs = rhs => ~truth(result)

(***************************************************************************)
(* Arithmetic.                                                             *)
(***************************************************************************)
ArithmeticOperators == {Op.Add, Op.Sub, Op.Mul, Op.Div}

\* the variant of a result, a host int, float, str or tuple read as the
\* Int, Real, String or List it stands for
Variant(v) ==
  CASE v.t = "pybool" -> "Bool"
    [] v.t = "pyint" -> "Int"
    [] v.t = "pyfloat" -> "Real"
    [] v.t = "str" -> "Str"
    [] v.t = "tuple" -> "List"
    [] OTHER -> v.t

\* C13: + - * / on two numbers give an Int for two Ints and a Real when an
\* operand is a Real, and a division by an Int or Real zero gives Error.
C13_ArithmeticVariants ==
  (IsBinary /\ callOperator \in ArithmeticOperators
     /\ lhs.t \in Numeric /\ rhs.t \in Numeric)
    => IF callOperator = Op.Div /\ NumN(rhs) = 0 THEN result = Error
       ELSE IF lhs.t = "Int" /\ rhs.t = "Int" THEN Variant(result) = "Int"
       ELSE Variant(result) = "Real"

NonNumeric == {"Str", "Bool", "List", "Record"}

\* C14: for + - * /, a number with Undefined gives Undefined, any operand
\* with Error gives Error, a pair with a String, Bool, List or Record and
\* neither Undefined nor Error gives Error, whichever operand comes first.
C14_ArithmeticOnNonNumbers ==
  (IsBinary /\ callOperator \in ArithmeticOperators)
    => /\ (lhs = Error \/ rhs = Error) => result = Error
       /\ (\/ lhs.t \in Numeric /\ rhs = Undefined
           \/ lhs = Undefined /\ rhs.t \in Numeric) => result = Undefined
       /\ (/\ lhs.t \in NonNumeric \/ rhs.t \in NonNumeric
           /\ {lhs, rhs} \cap {Undefined, Error} = {}) => result = Error

MetaOperators == {Op.Is, Op.Isnt, Op.MetaEq, Op.MetaNe}

\* C15: every binary operator other than is, isnt, =?= and =!= gives Error
\* when an operand is Error, and Undefined when an operand is Undefined and
\* none is Error.  The cells of the && and || tables over false, true,
\* Undefined and Error, which a false or a true operand may decide, are
\* left to those tables.
C15_Propagation ==
  (/\ IsBinary
   /\ callOperator \notin MetaOperators
   /\ ~(callOperator \in {Op.And, Op.Or} /\ lhs \in Lattice /\ rhs \in Lattice))
    => /\ (lhs = Error \/ rhs = Error) => result = Error
       /\ (lhs # Error /\ rhs # Error /\ (lhs = Undefined \/ rhs = Undefined))
            => result = Undefined

(***************************************************************************)
(* Ternary and subscript expressions.                                      *)
(***************************************************************************)
\* the last call evaluated a ternary c ? t : e, or c ?: e when t is None
IsTernary ==
  /\ call.name = "Expression.evaluate"
  /\ call.expression.t = "Ternary"
condition == call.expression.x.l[1]
thenBranch == call.expression.x.l[2]
elseBranch == call.expression.x.l[3]

\* the value of a part of the last call's expression, evaluated as the call was
ValueOf(part) == evaluate(part, call.key, ad, call.target)

\* C16: c ? t : e gives the value of t when c is true, the value of e when c
\* is false, Undefined when c is Undefined and Error when c is Error, a
\* number, a String, a List or a Record; the branch that is not selected is
\* not evaluated, so an exception it would raise is not raised.
C16_Ternary ==
  (IsTernary /\ thenBranch # None /\ ~IsRaise(ValueOf(condition)))
    => LET c == AsBool(ValueOf(condition))
       IN /\ c = HTCBool(TRUE) => result = ValueOf(thenBranch)
          /\ c = HTCBool(FALSE) => result = ValueOf(elseBranch)
          /\ c = Undefined => result = Undefined
          /\ (c = Error \/ c.t \in NonBool) => result = Error

\* C17: c ?: e gives the value of e when c is Undefined, true when c is
\* true without evaluating e, and Error when c is Error, a number or a
\* String.
C17_Elvis ==
  (IsTernary /\ thenBranch = None /\ ~IsRaise(ValueOf(condition)))
    => LET c == AsBool(ValueOf(condition))
       IN /\ c = Undefined => result = ValueOf(elseBranch)
          /\ c = HTCBool(TRUE) => AsBool(result) = HTCBool(TRUE)
          /\ (c = Error \/ c.t \in {"Int", "Real", "Str"}) => result = Error

\* the last call evaluated operand[item] for a list operand
IsSubscript ==
  /\ call.name = "Expression.evaluate"
  /\ call.expression.t = "Subscript"
  /\ call.expression.x.l[1].t = "List"
subscripted == call.expression.x.l[1].l
subscriptIndex == call.expression.x.l[2]

\* C18: L[i] gives the value of the element at i when i is an Int with
\* 0 <= i < length(L), and the Error value, raising nothing, when i is out
\* of range, L is empty or i is a Real, Bool, String or Undefined.
C18_ListSubscript ==
  IsSubscript
    => IF subscriptIndex.t = "Int" /\ 0 <= subscriptIndex.i
            /\ subscriptIndex.i < Len(subscripted)
       THEN result = ValueOf(subscripted[subscriptIndex.i + 1])
       ELSE subscriptIndex.t \in {"Int", "Real", "Bool", "Str", "Undefined"}
              => result = Error

(***************************************************************************)
(* Unknown attributes.                                                     *)
(***************************************************************************)
RECURSIVE definedIn(_, _)
\* the record r, or a record nested in it, defines the name n
definedIn(n, r) ==
  \/ n \in DOMAIN r.data
  \/ \E m \in DOMAIN r.data : r.data[m].t = "Record" /\ definedIn(n, r.data[m])

\* C19: with no target, evaluating the record with a name it does not
\* define, and evaluating a reference to a name defined nowhere in the
\* record, alone or under an operator, with no key or under the path of any
\* of its records, give Undefined and raise nothing.
C19_UnknownAttributeIsUndefined ==
  call.name \in {"ClassAd.evaluate", "Expression.evaluate"} /\ call.target = None
    => /\ (/\ call.name = "ClassAd.evaluate"
           /\ \/ call.key = PyStr(na) /\ na \notin DOMAIN ad.data
              \/ call.key = PyStr(nb) /\ nb \notin DOMAIN ad.data
              \/ /\ call.key = PyTuple(<<PyStr(nb), PyStr(na)>>)
                 /\ nb \in DOMAIN ad.data
                 /\ ad.data[nb].t = "Record"
                 /\ na \notin DOMAIN ad.data[nb].data)
            => result = Undefined
       /\ (/\ call.name = "Expression.evaluate"
           /\ call.expression \in
                {AttributeExpression(PyStr(na)),
                 ArithmeticExpression(<<AttributeExpression(PyStr(na)), Op.Add, HTCInt(1)>>)}
           /\ ~definedIn(na, ad)
           /\ call.key = None \/ record_at(ad, callPath) # None)
            => result = Undefined

(***************************************************************************)
(* The keys of a record.                                                   *)
(***************************************************************************)
RECURSIVE recordsOf(_)
\* the record r and the records nested in it
recordsOf(r) ==
  {r} \cup UNION {recordsOf(r.data[m]) : m \in {k \in DOMAIN r.data : r.data[k].t = "Record"}}

\* the stored names of the record the last insertion was made in that are
\* the inserted name up to letter case
storedAs == {k \in DOMAIN record_at(ad, call.path).data : casefold(k) = casefold(call.key)}

\* every stored name is case-folded and not reserved, and an accepted
\* insertion is stored once, under the case-folded name, with its expression
KeysAreFolded ==
  /\ \A r \in recordsOf(ad) : \A k \in DOMAIN r.data :
       casefold(k) = k /\ casefold(k) \notin reserved
  /\ (call.name = "setitem" /\ ~IsRaise(result))
       => /\ storedAs = {casefold(call.key)}
          /\ record_at(ad, call.path).data[casefold(call.key)] = call.value
  /\ (call.name = "setitem" /\ casefold(call.key) \in reserved)
       => result = Raise("ValueError")

\* an insertion under a reserved name leaves the record as it was
RejectedIsUnchanged ==
  (call'.name = "setitem" /\ casefold(call'.key) \in reserved) => ad' = ad

\* C20: after any insertions, accepted or rejected, and deletions, every
\* stored key is the case-folded form of the name it was inserted under and
\* none is error, false, is, isnt, parent, true or undefined in any letter
\* case; an insertion under a reserved name raises and leaves the record
\* unchanged; two insertions under names that differ only in case leave one
\* attribute, holding the later expression.
C20_RecordKeyInvariant == []KeysAreFolded /\ [][RejectedIsUnchanged]_vars

\* a is overwritten by an insertion under A
C20_Witness ==
  /\ call.name = "setitem"
  /\ call.key = <<"A">>
  /\ call.path = <<>>
  /\ DOMAIN ad.data = {na, nb}
  /\ ad.data[na] = call.value
  /\ call.value = HTCInt(2)

(***************************************************************************)
(* Equality of records.                                                    *)
(***************************************************************************)
\* the last call compared the records of two lists of attribute definitions
IsRecordEquality == call.name = "ClassAd.__eq__"

\* the names a list of definitions defines, case-folded
definedNames(defs) == {casefold(defs[i][1]) : i \in DOMAIN defs}

\* the expression a list of definitions leaves under the case-folded name n
definitionOf(defs, n) ==
  LET i == CHOOSE j \in DOMAIN defs :
             /\ casefold(defs[j][1]) = n
             /\ \A k \in DOMAIN defs : casefold(defs[k][1]) = n => k <= j
  IN defs[i][2]

\* C21: two records compare equal exactly when they define the same names up
\* to letter case with the same expression under every name; they are
\* unequal when a name or the expression of a name differs.
C21_RecordEquality ==
  IsRecordEquality
    => result = HTCBool(/\ definedNames(call.left) = definedNames(call.right)
                        /\ \A n \in definedNames(call.left) :
                             definitionOf(call.left, n) = definitionOf(call.right, n))

(***************************************************************************)
(* Equality of operator chains.                                            *)
(***************************************************************************)
\* the last call compared two operator chains
IsChainEquality == call.name = "ArithmeticExpression.__eq__"
leftChain == call.left.x.l
rightChain == call.right.x.l

\* the items at position i of two chains agree: the same operand, or
\* operators that are the same function (is and =?=, isnt and =!=)
agree(l, r, i) ==
  IF i % 2 = 0 THEN operator_map(l[i]) = operator_map(r[i]) ELSE l[i] = r[i]

\* C29: two operator chains compare equal only if they have the same number
\* of operands and agree in every operand and operator, position by
\* position; a+b+c is unequal to a+b+d and a+b to a+b+c.
C29_ChainEqualityIsStructural ==
  IsChainEquality
    => (truth(result)
          => /\ Len(leftChain) = Len(rightChain)
             /\ \A i \in 1..Len(leftChain) : agree(leftChain, rightChain, i))

(***************************************************************************)
(* Evaluation and the records it reads.                                    *)
(***************************************************************************)
IsEvaluation == call.name \in {"ClassAd.evaluate", "Expression.evaluate"}

\* a step that evaluates leaves the record, its nested records and their
\* stored expressions as they were
EvaluationKeepsRecord == IsEvaluation' => ad' = ad

\* the result of the last evaluation is the value of its expression over the
\* record as it is now, whatever was evaluated before and against whichever
\* target
EvaluationIsRepeatable ==
  /\ call.name = "ClassAd.evaluate" => result = evaluate(ad, call.key, ad, call.target)
  /\ call.name = "Expression.evaluate"
       => result = evaluate(call.expression, call.key, ad, call.target)

IsListLiteral ==
  /\ call.name = "Expression.evaluate"
  /\ call.expression.t = "List"
listElements == call.expression.l

\* C25: evaluating a list literal gives the List of the values of its
\* elements, each evaluated as the literal was, and no member of the result
\* is an unevaluated expression: {10, 17*2, 30} gives the List of 10, 34, 30.
C25_ListLiteralIsEvaluated ==
  IsListLiteral
    => /\ result = HTCList([i \in 1..Len(listElements) |-> ValueOf(listElements[i])])
       /\ \A i \in 1..Len(result.l) : result.l[i].t \in PrimitiveTags \cup {"Record"}

(***************************************************************************)
(* Deletion.                                                               *)
(***************************************************************************)
\* the last call was del ad[path][key]
IsDeletion == call.name = "delitem"
\* the record the deletion was made in, after it
deletedFrom == record_at(ad, call.path)
\* the spellings of a name the model uses
Spellings == {a[2] : a \in Attributes \cup Deleted}

\* C30: after a deletion of a name written in any letter case, looking the
\* name up in any letter case gives Undefined and the record's length does
\* not count it: the record has no attribute of that name under case
\* folding.
C30_DeletionFoldsCase ==
  IsDeletion
    => /\ casefold(call.key) \notin DOMAIN deletedFrom.data
       /\ \A k \in Spellings :
            casefold(k) = casefold(call.key)
              => ClassAd_getitem(deletedFrom, PyStr(k)) = Undefined

(***************************************************************************)
(* Selection from a record literal.                                        *)
(***************************************************************************)
\* the last call evaluated the selection ad.p with no key given
IsSelection ==
  /\ call.name = "Expression.evaluate"
  /\ call.expression.t = "Dot"
  /\ call.key = None
\* the name path p of the selection
selectedPath == index(call.expression.x, 1).x

\* C28: the selection R.p from a record literal R evaluates to the value
\* that evaluating R with key = p gives: the definition of p is evaluated
\* with the scope walk rooted in R, and the result is not an unevaluated
\* expression node.
C28_SelectionIsEvaluationByKey ==
  IsSelection
    => result = evaluate(index(call.expression.x, 0), selectedPath,
                         index(call.expression.x, 0), call.target)

(***************************************************************************)
(* The two forms of a record.                                              *)
(***************************************************************************)
\* the last call parsed the stream form and the record form of one sequence
\* of attribute definitions and compared the results
IsFormComparison == call.name = "parse"

\* C26: the stream form and the record form of a sequence of attribute
\* definitions parse to syntax trees that compare equal.
C26_StreamAndRecordFormAgree ==
  IsFormComparison => result = HTCBool(TRUE)

(***************************************************************************)
(* Function calls.                                                         *)
(***************************************************************************)
\* the last call evaluated a function call
IsFunctionCall ==
  /\ call.name = "Expression.evaluate"
  /\ call.expression.t = "Function"
callName == call.expression.name
\* the arguments of the call; they are literals, their own values
callArguments == call.expression.x.l
\* the built-in functions the calls name, with their numbers of arguments
Arity ==
  [eval |-> 1, unparse |-> 1, isUndefined |-> 1, isInteger |-> 1,
   ceiling |-> 1, quantize |-> 2]

\* C23: a call whose name is not a built-in function gives Error, and a
\* call of a built-in function with the wrong number of arguments gives
\* Error; neither raises an exception.
C23_BadCallIsError ==
  (IsFunctionCall
     /\ (callName \notin DOMAIN Arity \/ Len(callArguments) # Arity[callName]))
    => result = Error

\* the last call evaluated quantize(a, b)
IsQuantize == IsFunctionCall /\ callName = "quantize" /\ Len(callArguments) = 2
\* ceil(a / b) * b for a number a and a positive number b, of the type of b
multipleOf(a, b) ==
  LET ceil == -((-(NumN(a) * NumD(b))) \div (NumD(a) * NumN(b)))
      product == Frac(ceil * NumN(b), NumD(b))
  IN IF b.t = "Int" THEN HTCInt(ceil * b.i) ELSE HTCFloat(product[1], product[2])
\* the members of a list that quantize has to consider for a: those up to
\* the first member that is not a number or is at least a
RECURSIVE considered(_, _)
considered(a, members) ==
  IF members = <<>> THEN <<>>
  ELSE IF Head(members).t \notin Numeric
          \/ NumN(Head(members)) * NumD(a) >= NumN(a) * NumD(Head(members))
  THEN <<Head(members)>>
  ELSE <<Head(members)>> \o considered(a, Tail(members))

\* C24: quantize(a, b) is ceil(a / b) * b of the type of b for numbers a
\* and b; for a list b it is the first member that is at least a, and the
\* multiple of the last member when there is none; it is Error when a, b
\* or a member that had to be considered is not a number.
C24_Quantize ==
  IsQuantize
    => LET a == callArguments[1]
           b == callArguments[2]
       IN IF a.t \notin Numeric \/ b.t \notin Numeric \cup {"List"} THEN result = Error
          ELSE IF b.t \in Numeric THEN NumN(b) > 0 => result = multipleOf(a, b)
          ELSE IF b.l = <<>> THEN TRUE
          ELSE LET path == considered(a, b.l)
                   met == path[Len(path)]
               IN IF \E i \in 1..Len(path) : path[i].t \notin Numeric THEN result = Error
                  ELSE IF NumN(met) * NumD(a) >= NumN(a) * NumD(met) THEN result = met
                  ELSE NumN(met) > 0 => result = multipleOf(a, met)

\* C27: the text unparse gives for an expression parses to an expression
\* of the same value, and eval of a String gives the value of the
\* expression the String spells, not the String.
C27_UnparseAndEval ==
  (IsFunctionCall /\ Len(callArguments) = 1)
    => /\ callName = "unparse"
            => /\ result.t = "str"
               /\ ~IsRaise(parse(result.s))
               /\ evaluate(parse(result.s), None, ad, None) = callArguments[1]
       /\ (callName = "eval" /\ callArguments[1].t = "Str"
             /\ ~IsRaise(parse(callArguments[1].s)))
            => result = evaluate(parse(callArguments[1].s), None, ad, None)

====
